---- MODULE Spec2Model ----
(***************************************************************************)
(* Markup-aware template-tag engine: TagNormalizer (healing),              *)
(* DocxManager (load / scan / replace / export session) and DocxAppender   *)
(* (image pages spliced into a package).                                   *)
(*                                                                         *)
(* Text is a sequence of one-character strings, so that every regular      *)
(* expression of the source is evaluated character by character.           *)
(***************************************************************************)
EXTENDS Integers, Sequences, FiniteSets, TLC

VARIABLES
    hXml,       \* TagNormalizer: the xmlContent handed to normalize
    hDouble,    \* TagNormalizer: the isDoubleMode argument
    hOnce,      \* TagNormalizer: normalize(hXml, hDouble)
    hTwice,     \* TagNormalizer: normalize(hOnce, hDouble)
    hPc,        \* TagNormalizer: "start" | "healed" | "rehealed"
    zip,             \* DocxManager.zip: NullZip or the open archive
    doc,             \* DocxManager.doc: "null" or "ready" (a Docxtemplater instance)
    originalContent, \* DocxManager.originalContent: NoBytes or the stored bytes
    loadErrors,      \* DocxManager.loadErrors
    delimiterConfig, \* DocxManager.delimiterConfig
    call,            \* the last call made on the session: arguments, outcome, state before
    aBlob,      \* DocxAppender: initialDocxBlob, the filled package
    aEntries,   \* DocxAppender: the identifiers the input relationships part was built from
    aImages,    \* DocxAppender: images, with the Date.now() read for each
    aOut,       \* DocxAppender: the blob appendImages resolves to
    aIds,       \* DocxAppender: the rId computed for each image, in order
    aPc,        \* DocxAppender: "start" | "done"
    tText,      \* TagDetector: fullText given to findTags
    tTags,      \* TagDetector: what findTags returned
    tAgain,     \* TagDetector: what the next call on the same text returned
    tPc,        \* TagDetector: "start" | "found" | "again"
    sXml,       \* scanText: xml, the main text part of the loaded archive
    sText,      \* scanText: searchText
    sLastIndex, \* scanText: regex.lastIndex
    sMatches,   \* scanText: matches, the index of each object pushed so far
    sSpans,     \* scanText: the span each regex.exec matched; the last one is match
    sPc,        \* scanText: "call" | "loop" | "body" | "returned" | "raised"
    cSearchText,    \* CreatorView: searchText
    cTagName,       \* CreatorView: tagName
    cSearchResults, \* CreatorView: searchResults
    cError,         \* CreatorView: the title of error, "none" for null
    cSuccessMsg,    \* CreatorView: "none" for null, "replaced" for the message
    cRefreshPreviewTrigger, \* CreatorView: refreshPreviewTrigger
    cScanOf,        \* CreatorView: the text and the archive of the scan searchResults came from
    cPc,            \* CreatorView: "off" | "shown"
    gAppendices,    \* GeneratorView: appendices
    gPreviewUrls,   \* GeneratorView: appendixPreviewUrls
    gProcessing,    \* GeneratorView: isPreviewProcessing
    gTasks,         \* GeneratorView: the calls of generateAppendixPreviews waiting at an await
    gChanges,       \* GeneratorView: how many times appendices was set
    gPc             \* GeneratorView: "off" | "shown"

healVars == <<hXml, hDouble, hOnce, hTwice, hPc>>
sessVars == <<zip, doc, originalContent, loadErrors, delimiterConfig, call>>
appVars == <<aBlob, aEntries, aImages, aOut, aIds, aPc>>
tagVars == <<tText, tTags, tAgain, tPc>>
scanVars == <<sXml, sText, sLastIndex, sMatches, sSpans, sPc>>
viewVars == <<cSearchText, cTagName, cSearchResults, cError, cSuccessMsg,
              cRefreshPreviewTrigger, cScanOf, cPc>>
genVars == <<gAppendices, gPreviewUrls, gProcessing, gTasks, gChanges, gPc>>
vars == <<hXml, hDouble, hOnce, hTwice, hPc,
          zip, doc, originalContent, loadErrors, delimiterConfig, call,
          aBlob, aEntries, aImages, aOut, aIds, aPc,
          tText, tTags, tAgain, tPc,
          sXml, sText, sLastIndex, sMatches, sSpans, sPc,
          cSearchText, cTagName, cSearchResults, cError, cSuccessMsg,
          cRefreshPreviewTrigger, cScanOf, cPc,
          gAppendices, gPreviewUrls, gProcessing, gTasks, gChanges, gPc>>

-----------------------------------------------------------------------------
(* Bounds of the model *)

\* Longest main text part, in pieces, handed to TagNormalizer.normalize.
MaxHealPieces == 5

\* Longest main text part, in pieces, of a package given to DocxManager.load.
MaxDocPieces == 2

\* Most relationship entries in the package given to DocxAppender.appendImages.
MaxRels == 2

\* Most images given to DocxAppender.appendImages.
MaxImages == 2

\* Longest text, in pieces, given to TagDetector.findTags.
MaxTextPieces == 3

\* Most matches the loop of scanText is followed for.
MaxScanMatches == 4

\* Most replacements applied in one CreatorView.
MaxApplies == 2

\* Most changes of the appendix list in one GeneratorView.
MaxChanges == 3

-----------------------------------------------------------------------------
(* Text helpers: JavaScript string primitives over sequences of characters *)

LBRACE == "{"
RBRACE == "}"

IsBrace(c) == c = LBRACE \/ c = RBRACE

\* String.prototype.trim and \s: the white space of the modelled alphabet.
IsSpace(c) == c = " " \/ c = "\n"

Max(a, b) == IF a >= b THEN a ELSE b
Min(a, b) == IF a <= b THEN a ELSE b

\* s.substring(i-1, j) with 1-based inclusive positions; empty when j < i.
Sub(s, i, j) == IF j < i THEN <<>> ELSE SubSeq(s, i, j)

\* s.startsWith(p, i-1)
StartsWithAt(s, i, p) ==
    /\ i >= 1
    /\ i + Len(p) - 1 <= Len(s)
    /\ \A k \in 1..Len(p) : s[i + k - 1] = p[k]

\* s.indexOf(p, i-1) + 1; 0 when p does not occur at or after position i.
IndexOfFrom(s, p, i) ==
    LET at == {q \in i..Len(s) : StartsWithAt(s, q, p)}
    IN  IF at = {} THEN 0 ELSE CHOOSE q \in at : \A r \in at : q <= r

\* s.lastIndexOf(p) + 1, searching down from position i; 0 when absent.
LastIndexOfFrom(s, p, i) ==
    LET at == {q \in 1..i : StartsWithAt(s, q, p)}
    IN  IF at = {} THEN 0 ELSE CHOOSE q \in at : \A r \in at : q >= r

\* First position >= i holding character c; 0 when there is none.
RECURSIVE CharFrom(_, _, _)
CharFrom(s, c, i) ==
    IF i > Len(s) THEN 0
    ELSE IF s[i] = c THEN i
    ELSE CharFrom(s, c, i + 1)

RECURSIVE TrimLeft(_)
TrimLeft(s) == IF s # <<>> /\ IsSpace(Head(s)) THEN TrimLeft(Tail(s)) ELSE s

RECURSIVE TrimRight(_)
TrimRight(s) ==
    IF s # <<>> /\ IsSpace(s[Len(s)]) THEN TrimRight(Sub(s, 1, Len(s) - 1)) ELSE s

Trim(s) == TrimRight(TrimLeft(s))

\* Concatenation of a sequence of texts.
RECURSIVE Flatten(_)
Flatten(ss) == IF ss = <<>> THEN <<>> ELSE Head(ss) \o Flatten(Tail(ss))

\* All sequences over S of length 0..n.
SeqsUpTo(S, n) == UNION {[1..k -> S] : k \in 0..n}

-----------------------------------------------------------------------------
(* The regular expression <[^>]+> : one markup element *)

\* Position of the ">" closing the element that starts at i, 0 when no element
\* starts at i.  [^>]+ takes at least one character and cannot cross a ">".
TagEndAt(s, i) ==
    IF i > Len(s) \/ s[i] # "<" THEN 0
    ELSE LET j == CharFrom(s, ">", i + 1)
         IN  IF j >= i + 2 THEN j ELSE 0

\* s.replace(/<[^>]+>/g, with)
RECURSIVE ReplaceTagsFrom(_, _, _)
ReplaceTagsFrom(s, i, with) ==
    IF i > Len(s) THEN <<>>
    ELSE LET e == TagEndAt(s, i)
         IN  IF e # 0 THEN with \o ReplaceTagsFrom(s, e + 1, with)
             ELSE <<s[i]>> \o ReplaceTagsFrom(s, i + 1, with)

StripTags(s) == ReplaceTagsFrom(s, 1, <<>>)

\* s.replace(/{/g, '').replace(/}/g, '')
StripBraces(s) == SelectSeq(s, LAMBDA c : ~IsBrace(c))

-----------------------------------------------------------------------------
(* TagNormalizer *)

\* The element names of noisePatterns, in the order the patterns are applied.
NoisePrefixes == <<
    <<"<","w",":","p","r","o","o","f","E","r","r">>,
    <<"<","w",":","n","o","P","r","o","o","f">>,
    <<"<","w",":","l","a","n","g">>,
    <<"<","w",":","b","o","o","k","m","a","r","k","S","t","a","r","t">>,
    <<"<","w",":","b","o","o","k","m","a","r","k","E","n","d">>,
    <<"<","w",":","c","o","m","m","e","n","t","R","a","n","g","e","S","t","a","r","t">>,
    <<"<","w",":","c","o","m","m","e","n","t","R","a","n","g","e","E","n","d">>,
    <<"<","w",":","p","e","r","m","S","t","a","r","t">>,
    <<"<","w",":","p","e","r","m","E","n","d">>,
    <<"<","w",":","m","o","v","e","F","r","o","m","R","a","n","g","e","S","t","a","r","t">>,
    <<"<","w",":","m","o","v","e","F","r","o","m","R","a","n","g","e","E","n","d">>,
    <<"<","w",":","m","o","v","e","T","o","R","a","n","g","e","S","t","a","r","t">>,
    <<"<","w",":","m","o","v","e","T","o","R","a","n","g","e","E","n","d">>,
    <<"<","w",":","r","s","i","d">>
>>

\* One pattern /<w:name[^>]*\/>/ tried at position i: the position of its ">"
\* or 0.  [^>]* stops at the first ">", which must be preceded by a "/" that
\* lies after the element name.
NoiseEndAt(s, i, prefix) ==
    IF ~StartsWithAt(s, i, prefix) THEN 0
    ELSE LET j == CharFrom(s, ">", i + Len(prefix))
         IN  IF j # 0 /\ j - 1 >= i + Len(prefix) /\ s[j - 1] = "/" THEN j ELSE 0

\* cleaned.replace(pattern, '') for one pattern, scanning from position i.
RECURSIVE RemoveNoiseFrom(_, _, _)
RemoveNoiseFrom(s, i, prefix) ==
    IF i > Len(s) THEN <<>>
    ELSE LET e == NoiseEndAt(s, i, prefix)
         IN  IF e # 0 THEN RemoveNoiseFrom(s, e + 1, prefix)
             ELSE <<s[i]>> \o RemoveNoiseFrom(s, i + 1, prefix)

\* noisePatterns.forEach: pattern k, then k+1, ... each over the previous result.
RECURSIVE ApplyNoisePatterns(_, _)
ApplyNoisePatterns(s, k) ==
    IF k > Len(NoisePrefixes) THEN s
    ELSE ApplyNoisePatterns(RemoveNoiseFrom(s, 1, NoisePrefixes[k]), k + 1)

removeNoiseTags(xml) == ApplyNoisePatterns(xml, 1)

\* /(m)([^}{]*?)(<[^>]+>)+([^}{]*?)(m)/ : the greedy run (<[^>]+>)+ starting at
\* p, as the positions of the ">" ending its 1st, 2nd, ... element.
RECURSIVE TagRunEnds(_, _)
TagRunEnds(s, p) ==
    LET e == TagEndAt(s, p)
    IN  IF e = 0 THEN <<>> ELSE <<e>> \o TagRunEnds(s, e + 1)

\* First position >= q holding a brace; 0 when there is none.
RECURSIVE NextBrace(_, _)
NextBrace(s, q) ==
    IF q > Len(s) THEN 0
    ELSE IF IsBrace(s[q]) THEN q
    ELSE NextBrace(s, q + 1)

NoMatch == [end |-> 0, pad1 |-> <<>>, pad2 |-> <<>>]

\* The run of elements is greedy: k elements are tried before k-1.  After them
\* the lazy [^}{]*? reaches the next brace, which has to be the marker m.
RECURSIVE TryTagRun(_, _, _, _, _, _)
TryTagRun(s, i, p, ends, k, m) ==
    IF k = 0 THEN NoMatch
    ELSE LET q == ends[k] + 1
             e == NextBrace(s, q)
         IN  IF e # 0 /\ s[e] = m
             THEN [end |-> e, pad1 |-> Sub(s, i + 1, p - 1), pad2 |-> Sub(s, q, e - 1)]
             ELSE TryTagRun(s, i, p, ends, k - 1, m)

\* The lazy first padding: the shortest brace-free text after which the rest of
\* the pattern matches.
RECURSIVE TryPadding(_, _, _, _)
TryPadding(s, i, p, m) ==
    IF p > Len(s) THEN NoMatch
    ELSE LET ends == TagRunEnds(s, p)
             r == TryTagRun(s, i, p, ends, Len(ends), m)
         IN  IF r.end # 0 THEN r
             ELSE IF IsBrace(s[p]) THEN NoMatch
             ELSE TryPadding(s, i, p + 1, m)

SplitMatchAt(s, i, m) == IF s[i] # m THEN NoMatch ELSE TryPadding(s, i, i + 1, m)

\* xml.replace(/(m)...(m)/g, callback): a match whose two paddings are blank
\* becomes the doubled marker, any other match is kept; the scan resumes after
\* the match in both cases.
RECURSIVE RepairFrom(_, _, _)
RepairFrom(s, i, m) ==
    IF i > Len(s) THEN <<>>
    ELSE LET r == SplitMatchAt(s, i, m)
         IN  IF r.end = 0 THEN <<s[i]>> \o RepairFrom(s, i + 1, m)
             ELSE IF Trim(r.pad1) = <<>> /\ Trim(r.pad2) = <<>>
                  THEN <<m, m>> \o RepairFrom(s, r.end + 1, m)
                  ELSE Sub(s, i, r.end) \o RepairFrom(s, r.end + 1, m)

repairSplitDelimiters(xml) == RepairFrom(RepairFrom(xml, 1, LBRACE), 1, RBRACE)

removeDuplicateDelimiters(xml) == xml

\* A cleaning that leaves the markup in.
CleanContentKeepsMarkup(content) == StripBraces(content)

\* The callback of consolidateTags: markup, then braces, are stripped from the
\* captured content, which is re-emitted between the markers as it is.
CleanContent(content) == StripBraces(StripTags(content))

\* xml.replace(/{{([\s\S]*?)}}/g, callback)
RECURSIVE ConsolidateFrom(_, _)
ConsolidateFrom(s, i) ==
    IF i > Len(s) THEN <<>>
    ELSE LET j == IF StartsWithAt(s, i, <<LBRACE, LBRACE>>)
                  THEN IndexOfFrom(s, <<RBRACE, RBRACE>>, i + 2)
                  ELSE 0
         IN  IF j # 0
             THEN <<LBRACE, LBRACE>> \o CleanContent(Sub(s, i + 2, j - 1))
                      \o <<RBRACE, RBRACE>> \o ConsolidateFrom(s, j + 2)
             ELSE <<s[i]>> \o ConsolidateFrom(s, i + 1)

consolidateTags(xml) == ConsolidateFrom(xml, 1)

normalize(xmlContent, isDoubleMode) ==
    LET cleaned == removeNoiseTags(xmlContent)
    IN  IF isDoubleMode
        THEN consolidateTags(removeDuplicateDelimiters(repairSplitDelimiters(cleaned)))
        ELSE cleaned

-----------------------------------------------------------------------------
(* Archives: PizZip over an ArrayBuffer *)

\* A part that the archive does not hold.
NoPart == <<"NoPart">>

\* The bytes of an archive are modelled by the parts they serialise: the main
\* text part word/document.xml, the relationships part, the media parts, and
\* whether [Content_Types].xml lets the template engine identify the file.
Package(document, typed) ==
    [kind |-> "zip", document |-> document, rels |-> NoPart, media |-> {},
     typed |-> typed]

\* Bytes that are no archive at all.
Corrupt == [kind |-> "corrupt"]

NoBytes == [kind |-> "null"]
NullZip == [kind |-> "null"]

\* new PizZip(content) throws on bytes that are no archive.
PizZipThrows(content) == content.kind # "zip"

\* zip.generate({type: "arraybuffer"}) and new PizZip(bytes): every part is
\* written and read back as it is.
Generate(z) == z

\* zip.file("word/document.xml", xml)
WithDocument(z, xml) == [z EXCEPT !.document = xml]

-----------------------------------------------------------------------------
(* DocxManager *)

DoubleDelimiters == [start |-> <<LBRACE, LBRACE>>, end |-> <<RBRACE, RBRACE>>]
SingleDelimiters == [start |-> <<LBRACE>>, end |-> <<RBRACE>>]

\* (xml.match(/p/g) || []).length : non-overlapping occurrences of p from i on.
RECURSIVE CountFrom(_, _, _)
CountFrom(s, p, i) ==
    LET j == IndexOfFrom(s, p, i)
    IN  IF j = 0 THEN 0 ELSE 1 + CountFrom(s, p, j + Len(p))

\* A detection that takes any brace for the single convention.
detectDelimitersAnyBrace(content) ==
    IF PizZipThrows(content) \/ content.document = NoPart THEN DoubleDelimiters
    ELSE IF CountFrom(content.document, <<LBRACE>>, 1) > 0 THEN SingleDelimiters
    ELSE DoubleDelimiters

detectDelimiters(content) ==
    IF PizZipThrows(content) THEN DoubleDelimiters
    ELSE LET xml == IF content.document = NoPart THEN <<>> ELSE content.document
             doubleOpen == CountFrom(xml, <<LBRACE, LBRACE>>, 1)
             singleOpen == CountFrom(xml, <<LBRACE>>, 1)
         IN  IF doubleOpen = 0 /\ singleOpen > 0
             THEN SingleDelimiters
             ELSE DoubleDelimiters

\* healDocumentXml, for content that PizZip opens.
healDocumentXml(content, delimiters) ==
    IF content.document = NoPart THEN content
    ELSE Generate(WithDocument(content,
             normalize(content.document, delimiters.start = <<LBRACE, LBRACE>>)))

\* The delimiter errors the Docxtemplater constructor collects from the text of
\* the part: an opening marker inside an open placeholder, a closing marker with
\* none open, a placeholder left open at the end.
RECURSIVE LexErrors(_, _, _, _)
LexErrors(text, i, open, d) ==
    IF i > Len(text) THEN (IF open THEN <<"unclosed_tag">> ELSE <<>>)
    ELSE IF StartsWithAt(text, i, d.start)
         THEN (IF open THEN <<"duplicate_open_tag">> ELSE <<>>)
                  \o LexErrors(text, i + Len(d.start), TRUE, d)
    ELSE IF StartsWithAt(text, i, d.end)
         THEN (IF open THEN <<>> ELSE <<"unopened_tag">>)
                  \o LexErrors(text, i + Len(d.end), FALSE, d)
    ELSE LexErrors(text, i + 1, open, d)

\* new Docxtemplater(zip, {delimiters}): "fatal" is an error without
\* properties.errors (the file type cannot be identified), "errors" a template
\* error carrying properties.errors, "ready" an instance.
EngineInit(z, delimiters) ==
    IF ~z.typed THEN [outcome |-> "fatal", errors |-> <<>>]
    ELSE LET errs == IF z.document = NoPart THEN <<>>
                     ELSE LexErrors(StripTags(z.document), 1, FALSE, delimiters)
         IN  IF errs = <<>> THEN [outcome |-> "ready", errors |-> <<>>]
             ELSE [outcome |-> "errors", errors |-> errs]

\* The session fields, as one value.
Session(z, d, oc, le, dc) ==
    [zip |-> z, doc |-> d, originalContent |-> oc, loadErrors |-> le,
     delimiterConfig |-> dc]

Current == Session(zip, doc, originalContent, loadErrors, delimiterConfig)

\* initializeDocxtemplater over the archive z just assigned to zip: the session
\* load leaves and the error it throws ("none" when it returns).
initializeDocxtemplater(content, dc, z, e) ==
    CASE e.outcome = "ready" ->
            [error |-> "none", session |-> Session(z, "ready", content, <<>>, dc)]
      [] e.outcome = "errors" ->
            [error |-> "none", session |-> Session(z, "null", content, e.errors, dc)]
      [] OTHER ->
            [error |-> "Critical error initializing template engine",
             session |-> Session(z, "null", content, <<>>, dc)]

\* load(content) once the fields are reset and the delimiters dc detected: the
\* archive is opened and healed, or the load fails with zip left null.
LoadDetected(content, dc, z) ==
    IF PizZipThrows(content)
    THEN [error |-> "Failed to read file",
          session |-> Session(NullZip, "null", content, <<>>, dc)]
    ELSE initializeDocxtemplater(content, dc, z, EngineInit(z, dc))

LoadHealing(content, dc) ==
    LoadDetected(content, dc,
                 IF PizZipThrows(content) THEN NullZip ELSE healDocumentXml(content, dc))

load(content) == LoadHealing(content, detectDelimiters(content))

\* searchText.replace(/[.*+?^${}()|[\]\\]/g, '\\$&')
RegexSpecials == {".", "*", "+", "?", "^", "$", "{", "}", "(", ")", "|", "[", "]", "\\"}

RECURSIVE EscapeSearch(_)
EscapeSearch(t) ==
    IF t = <<>> THEN <<>>
    ELSE (IF Head(t) \in RegexSpecials THEN <<"\\", Head(t)>> ELSE <<Head(t)>>)
             \o EscapeSearch(Tail(t))

\* The separator joined between the characters: one token of the pattern.
SEP == "(<[^>]+>)*"

\* chars.join('(<[^>]+>)*')
RECURSIVE JoinChars(_)
JoinChars(chars) ==
    IF Len(chars) <= 1 THEN chars
    ELSE <<Head(chars), SEP>> \o JoinChars(Tail(chars))

PatternString(searchText) == JoinChars(EscapeSearch(searchText))

\* new RegExp(patternString): a backslash escapes what follows it.  Followed by
\* the separator it escapes the separator's "(" and leaves its ")" unmatched,
\* which is a SyntaxError; so is a backslash that ends the pattern.
RegExpThrows(pattern) ==
    \E k \in 1..Len(pattern) :
        /\ pattern[k] = "\\"
        /\ (k = 1 \/ pattern[k - 1] # "\\")
        /\ (k = Len(pattern) \/ pattern[k + 1] = SEP)

\* The literal characters of a pattern that compiles.
Atoms(pattern) == SelectSeq(pattern, LAMBDA c : c # SEP /\ c # "\\")

UpperCase == <<"A","B","C","D","E","F","G","H","I","J","K","L","M",
               "N","O","P","Q","R","S","T","U","V","W","X","Y","Z">>
LowerCase == <<"a","b","c","d","e","f","g","h","i","j","k","l","m",
               "n","o","p","q","r","s","t","u","v","w","x","y","z">>

ToLowerChar(c) ==
    IF \E k \in 1..Len(UpperCase) : UpperCase[k] = c
    THEN LowerCase[CHOOSE k \in 1..Len(UpperCase) : UpperCase[k] = c]
    ELSE c

\* s.toLowerCase()
ToLower(s) == [k \in 1..Len(s) |-> ToLowerChar(s[k])]

\* One literal of the pattern against one character, under flag i or not.
CharMatches(c, a, ignoreCase) ==
    IF ignoreCase THEN ToLowerChar(c) = ToLowerChar(a) ELSE c = a

\* The pattern tried at position p, from its k-th literal on (inSeparator
\* FALSE) or from the separator before that literal on (inSeparator TRUE): the
\* position of the last character matched, 0 when it fails.  The separator
\* takes as many elements as it can and gives them back one by one.
RECURSIVE MatchPattern(_, _, _, _, _, _)
MatchPattern(s, p, atoms, k, ignoreCase, inSeparator) ==
    IF inSeparator
    THEN LET e == TagEndAt(s, p)
             r == IF e = 0 THEN 0
                  ELSE MatchPattern(s, e + 1, atoms, k, ignoreCase, TRUE)
         IN  IF r # 0 THEN r ELSE MatchPattern(s, p, atoms, k, ignoreCase, FALSE)
    ELSE IF p > Len(s) \/ ~CharMatches(s[p], atoms[k], ignoreCase) THEN 0
    ELSE IF k = Len(atoms) THEN p
    ELSE MatchPattern(s, p + 1, atoms, k + 1, ignoreCase, TRUE)

\* Every match of the global pattern from position i on, in document order, as
\* [start, end] positions, for a search text that is not empty.
RECURSIVE MatchesFrom(_, _, _, _)
MatchesFrom(s, i, atoms, ignoreCase) ==
    IF i > Len(s) THEN <<>>
    ELSE LET e == MatchPattern(s, i, atoms, 1, ignoreCase, FALSE)
         IN  IF e = 0 THEN MatchesFrom(s, i + 1, atoms, ignoreCase)
             ELSE <<[start |-> i, end |-> e]>> \o MatchesFrom(s, e + 1, atoms, ignoreCase)

\* regex.exec(xml) in scanText's loop: flags "gi".
ScanMatches(xml, searchText) ==
    MatchesFrom(xml, 1, Atoms(PatternString(searchText)), TRUE)

\* The matches xml.replace(regex, callback) visits: flag "g".  The pattern of
\* an empty search text matches the empty string before every character and
\* at the end.
ReplaceMatches(xml, searchText) ==
    IF searchText = <<>>
    THEN [k \in 1..(Len(xml) + 1) |-> [start |-> k, end |-> k - 1]]
    ELSE MatchesFrom(xml, 1, Atoms(PatternString(searchText)), FALSE)

\* cleanText.replace(/\s+/g, ' ')
RECURSIVE CollapseSpace(_)
CollapseSpace(s) ==
    IF s = <<>> THEN <<>>
    ELSE IF IsSpace(Head(s))
         THEN <<" ">> \o CollapseSpace(TrimLeft(s))
         ELSE <<Head(s)>> \o CollapseSpace(Tail(s))

ContextRange == 200
ContextSide == 30
ContextFallback == 60

Ellipsis == <<".", ".", ".">>

\* The context snippet of one match (0-based offsets as in the source).
ContextOf(xml, m, searchText) ==
    LET index == m.start - 1
        length == m.end - m.start + 1
        start == Max(0, index - ContextRange)
        end == Min(Len(xml), index + length + ContextRange)
        rawChunk == Sub(xml, start + 1, end)
        cleanText == Trim(CollapseSpace(ReplaceTagsFrom(rawChunk, 1, <<" ">>)))
        textIndex == IndexOfFrom(ToLower(cleanText), ToLower(searchText), 1) - 1
    IN  IF textIndex # -1
        THEN LET ctxStart == Max(0, textIndex - ContextSide)
                 ctxEnd == Min(Len(cleanText), textIndex + Len(searchText) + ContextSide)
             IN  Ellipsis \o Sub(cleanText, ctxStart + 1, ctxEnd) \o Ellipsis
        ELSE Ellipsis \o Sub(cleanText, 1, Min(ContextFallback, Len(cleanText))) \o Ellipsis

\* scanText(searchText) on the archive z: what it throws or returns.
scanText(z, searchText) ==
    IF z.kind = "null" THEN [error |-> "No document loaded", result |-> <<>>]
    ELSE IF z.document = NoPart THEN [error |-> "No document.xml found", result |-> <<>>]
    ELSE IF RegExpThrows(PatternString(searchText))
         THEN [error |-> "SyntaxError", result |-> <<>>]
    ELSE LET found == ScanMatches(z.document, searchText)
         IN  [error |-> "none",
              result |-> [k \in 1..Len(found) |->
                            [index |-> k - 1,
                             context |-> ContextOf(z.document, found[k], searchText)]]]

\* `{{${tagName}}}`
NewTag(tagName) == <<LBRACE, LBRACE>> \o tagName \o <<RBRACE, RBRACE>>

\* The callback of xml.replace: match number k-1 becomes newTag when its number
\* is among indicesToReplace and is returned as it is otherwise; pos is the
\* first position not yet copied.
RECURSIVE ReplaceCallback(_, _, _, _, _, _)
ReplaceCallback(xml, pos, found, k, indicesToReplace, newTag) ==
    IF k > Len(found) THEN Sub(xml, pos, Len(xml))
    ELSE Sub(xml, pos, found[k].start - 1)
             \o (IF (k - 1) \in indicesToReplace
                 THEN newTag
                 ELSE Sub(xml, found[k].start, found[k].end))
             \o ReplaceCallback(xml, found[k].end + 1, found, k + 1,
                                indicesToReplace, newTag)

NotRun == <<"NotRun">>

\* An end that writes and loads again even when nothing matched.
ReplaceOutcomeReloads(s, found, xml, r) ==
    [error |-> IF Len(found) = 0 THEN "Text not found" ELSE r.error,
     session |-> r.session, matchCount |-> Len(found), found |-> found,
     written |-> xml]

\* The end of replaceSpecificOccurrences: xml is written to the archive, whose
\* bytes become originalContent and are loaded again (r is what that load
\* leaves); with no match nothing is written.
ReplaceOutcome(s, found, xml, r) ==
    IF Len(found) = 0
    THEN [error |-> "Text not found", session |-> s, matchCount |-> 0,
          found |-> found, written |-> NotRun]
    ELSE [error |-> r.error, session |-> r.session, matchCount |-> Len(found),
          found |-> found, written |-> xml]

\* An end that writes the part and stores the bytes, and leaves out the load.
ReplaceWrittenNotLoaded(s, found, xml) ==
    ReplaceOutcome(s, found, xml,
        [error |-> "none",
         session |-> Session(WithDocument(s.zip, xml), s.doc,
                             Generate(WithDocument(s.zip, xml)), s.loadErrors,
                             s.delimiterConfig)])

ReplaceWritten(s, found, xml) ==
    ReplaceOutcome(s, found, xml, load(Generate(WithDocument(s.zip, xml))))

ReplaceFound(s, found, indicesToReplace, newTag) ==
    ReplaceWritten(s, found,
                   ReplaceCallback(s.zip.document, 1, found, 1, indicesToReplace, newTag))

\* replaceSpecificOccurrences on session s: the error thrown ("none" when it
\* returns), the session left, matchCount (-1 when the pass did not run), the
\* matches the mutating pass visited and the part it wrote to the archive
\* before the reload.
replaceSpecificOccurrences(s, searchText, tagName, indicesToReplace) ==
    IF s.zip.kind = "null"
    THEN [error |-> "No document loaded", session |-> s, matchCount |-> -1,
          found |-> <<>>, written |-> NotRun]
    ELSE IF s.zip.document = NoPart
    THEN [error |-> "Could not find document.xml", session |-> s, matchCount |-> -1,
          found |-> <<>>, written |-> NotRun]
    ELSE IF RegExpThrows(PatternString(searchText))
    THEN [error |-> "SyntaxError", session |-> s, matchCount |-> -1,
          found |-> <<>>, written |-> NotRun]
    ELSE ReplaceFound(s, ReplaceMatches(s.zip.document, searchText),
                      indicesToReplace, NewTag(tagName))

\* exportCurrentZip on the archive z.
exportCurrentZip(z) ==
    IF z.kind = "null" THEN [error |-> "No file loaded", result |-> NoBytes]
    ELSE [error |-> "none", result |-> Generate(z)]

-----------------------------------------------------------------------------
(* TagDetector *)

\* First position >= i holding a character of stop; Len(s) + 1 when none does.
RunEnd(s, i, stop) ==
    LET at == {p \in i..Len(s) : s[p] \in stop}
    IN  IF at = {} THEN Len(s) + 1 ELSE CHOOSE p \in at : \A q \in at : p <= q

\* DOUBLE_BRACE_REGEX /{{\s*([^}]+)\s*}}/ tried at position i: the position of
\* the last character matched, 0 when it fails.  \s*, [^}]+ and \s* together
\* take the characters up to the first "}", at least one, and "}}" follows.
DoubleMatchAt(s, i) ==
    LET j == RunEnd(s, i + 2, {RBRACE})
    IN  IF /\ StartsWithAt(s, i, <<LBRACE, LBRACE>>)
           /\ j >= i + 3
           /\ StartsWithAt(s, j, <<RBRACE, RBRACE>>)
        THEN j + 1
        ELSE 0

\* SINGLE_BRACE_REGEX /(?<!{){\s*([^{}]+)\s*}(?!})/ tried at position i.
SingleMatchAt(s, i) ==
    LET j == RunEnd(s, i + 1, {LBRACE, RBRACE})
    IN  IF /\ i <= Len(s)
           /\ s[i] = LBRACE
           /\ (i = 1 \/ s[i - 1] # LBRACE)
           /\ j >= i + 2
           /\ j <= Len(s)
           /\ s[j] = RBRACE
           /\ (j = Len(s) \/ s[j + 1] # RBRACE)
        THEN j
        ELSE 0

\* Capture group 1 of a match: the leading \s* takes the white space before
\* the name, so the group is the content without it, or the last character of
\* a content that is white space only.
Group1(content) ==
    IF TrimLeft(content) = <<>> THEN Sub(content, Len(content), Len(content))
    ELSE TrimLeft(content)

\* The matches regex.exec yields from position i on: match[0] and match[1].
RECURSIVE DoubleMatches(_, _)
DoubleMatches(s, i) ==
    IF i > Len(s) THEN <<>>
    ELSE LET e == DoubleMatchAt(s, i)
         IN  IF e = 0 THEN DoubleMatches(s, i + 1)
             ELSE <<[raw |-> Sub(s, i, e), group |-> Group1(Sub(s, i + 2, e - 2))]>>
                      \o DoubleMatches(s, e + 1)

RECURSIVE SingleMatches(_, _)
SingleMatches(s, i) ==
    IF i > Len(s) THEN <<>>
    ELSE LET e == SingleMatchAt(s, i)
         IN  IF e = 0 THEN SingleMatches(s, i + 1)
             ELSE <<[raw |-> Sub(s, i, e), group |-> Group1(Sub(s, i + 1, e - 1))]>>
                      \o SingleMatches(s, e + 1)

\* An addTag that does not look at seen.
addTagUnseen(raw, name, tags) ==
    IF Trim(name) # <<>>
    THEN Append(tags, [id |-> Trim(name), raw |-> raw, name |-> Trim(name)])
    ELSE tags

\* addTag: the tag is pushed unless its trimmed name is empty or seen; seen
\* holds the names of the tags pushed so far.
addTag(raw, name, tags) ==
    IF Trim(name) # <<>> /\ \A k \in 1..Len(tags) : tags[k].name # Trim(name)
    THEN Append(tags, [id |-> Trim(name), raw |-> raw, name |-> Trim(name)])
    ELSE tags

NameLimit == 50

\* The first loop of findTags, from match k on.
RECURSIVE AddDoubles(_, _, _)
AddDoubles(found, k, tags) ==
    IF k > Len(found) THEN tags
    ELSE AddDoubles(found, k + 1, addTag(found[k].raw, found[k].group, tags))

\* The second loop of findTags, from match k on.
RECURSIVE AddSingles(_, _, _)
AddSingles(found, k, tags) ==
    IF k > Len(found) THEN tags
    ELSE AddSingles(found, k + 1,
             IF /\ Len(Trim(found[k].group)) < NameLimit
                /\ \A j \in 1..Len(Trim(found[k].group)) : Trim(found[k].group)[j] # "\n"
             THEN addTag(found[k].raw, Trim(found[k].group), tags)
             ELSE tags)

\* The characters of the modelled alphabet in the order of their primary
\* collation weights: controls, space, punctuation, letters.
CollationOrder == <<"\n", " ", "{", "}">> \o LowerCase

PrimaryWeight(c) ==
    IF \E k \in 1..Len(CollationOrder) : CollationOrder[k] = ToLowerChar(c)
    THEN CHOOSE k \in 1..Len(CollationOrder) : CollationOrder[k] = ToLowerChar(c)
    ELSE 0

\* The case level: a lower-case letter sorts before its upper-case form.
TertiaryWeight(c) == IF ToLowerChar(c) # c THEN 1 ELSE 0

\* Lexicographic comparison of two sequences of numbers: -1, 0 or 1.
RECURSIVE CompareKeys(_, _)
CompareKeys(x, y) ==
    IF x = <<>> /\ y = <<>> THEN 0
    ELSE IF x = <<>> THEN -1
    ELSE IF y = <<>> THEN 1
    ELSE IF Head(x) < Head(y) THEN -1
    ELSE IF Head(x) > Head(y) THEN 1
    ELSE CompareKeys(Tail(x), Tail(y))

\* a.localeCompare(b) under the default collation: the letters decide first,
\* their case only between names with the same letters.
localeCompare(a, b) ==
    LET primary == CompareKeys([k \in 1..Len(a) |-> PrimaryWeight(a[k])],
                               [k \in 1..Len(b) |-> PrimaryWeight(b[k])])
    IN  IF primary # 0 THEN primary
        ELSE CompareKeys([k \in 1..Len(a) |-> TertiaryWeight(a[k])],
                         [k \in 1..Len(b) |-> TertiaryWeight(b[k])])

\* tags.sort((a, b) => a.name.localeCompare(b.name)): a stable sort; tag t goes
\* after the last tag that does not compare greater.
RECURSIVE SortInsert(_, _)
SortInsert(sorted, t) ==
    IF sorted = <<>> THEN <<t>>
    ELSE IF localeCompare(sorted[Len(sorted)].name, t.name) <= 0 THEN Append(sorted, t)
    ELSE Append(SortInsert(Sub(sorted, 1, Len(sorted) - 1), t), sorted[Len(sorted)])

RECURSIVE SortTags(_, _)
SortTags(tags, k) ==
    IF k = 0 THEN <<>> ELSE SortInsert(SortTags(tags, k - 1), tags[k])

\* A findTags that runs the single-brace scan after the double-brace one.
FindTagsBothScans(fullText, doubles) ==
    AddSingles(SingleMatches(fullText, 1), 1, AddDoubles(doubles, 1, <<>>))

\* A findTags that never falls back to the single-brace scan.
FindTagsDoublesOnly(fullText, doubles) == AddDoubles(doubles, 1, <<>>)

\* findTags once the double-brace matches are known.
FindTagsAfterDoubles(fullText, doubles) ==
    IF Len(doubles) > 0 THEN AddDoubles(doubles, 1, <<>>)
    ELSE AddSingles(SingleMatches(fullText, 1), 1, <<>>)

FindTagsUnsorted(fullText) == FindTagsAfterDoubles(fullText, DoubleMatches(fullText, 1))

FindTagsSorted(tags) == SortTags(tags, Len(tags))

findTags(fullText) == FindTagsSorted(FindTagsUnsorted(fullText))

-----------------------------------------------------------------------------
(* DocxManager.getTags *)

PARA_CLOSE == <<"<","/","w",":","p",">">>

\* s.replace(/<\/w:p>/g, "\n")
RECURSIVE ParagraphsToLines(_, _)
ParagraphsToLines(s, i) ==
    IF i > Len(s) THEN <<>>
    ELSE IF StartsWithAt(s, i, PARA_CLOSE)
    THEN <<"\n">> \o ParagraphsToLines(s, i + Len(PARA_CLOSE))
    ELSE <<s[i]>> \o ParagraphsToLines(s, i + 1)

\* doc.getFullText(): the text of the main part with its markup left out.
GetFullText(z) == IF z.document = NoPart THEN <<>> ELSE StripTags(z.document)

\* The text getTags gathers without a template instance: paragraph ends become
\* line breaks and every other element a space.  The archives of the model
\* hold no header or footer part.
FallbackText(z) ==
    IF z.document = NoPart THEN <<>>
    ELSE ReplaceTagsFrom(ParagraphsToLines(z.document, 1), 1, <<" ">>)

getTags(z, d) ==
    IF z.kind = "null" THEN [error |-> "No document loaded", result |-> <<>>]
    ELSE [error |-> "none",
          result |-> findTags(IF d = "ready" THEN GetFullText(z) ELSE FallbackText(z))]

-----------------------------------------------------------------------------
(* DocxAppender *)

Digits == <<"0","1","2","3","4","5","6","7","8","9">>

IsDigit(c) == \E d \in 1..10 : Digits[d] = c

DigitValue(c) == (CHOOSE d \in 1..10 : Digits[d] = c) - 1

\* parseInt of a run of decimal digits.
RECURSIVE ParseDigits(_, _)
ParseDigits(t, acc) ==
    IF t = <<>> THEN acc ELSE ParseDigits(Tail(t), 10 * acc + DigitValue(Head(t)))

\* A parse that stops after the first digit.
parseIntFirstDigit(t) == DigitValue(Head(t))

parseInt(t) == ParseDigits(t, 0)

\* `${n}` for a number n >= 0.
RECURSIVE ToDecimal(_)
ToDecimal(n) ==
    IF n < 10 THEN <<Digits[n + 1]>>
    ELSE ToDecimal(n \div 10) \o <<Digits[(n % 10) + 1]>>

\* Last position of the run of digits that starts at i (i - 1 when there is none).
RECURSIVE DigitRunEnd(_, _)
DigitRunEnd(s, i) ==
    IF i <= Len(s) /\ IsDigit(s[i]) THEN DigitRunEnd(s, i + 1) ELSE i - 1

ID_RID == <<"I","d","=","\"","r","I","d">>
QUOTE == "\""

\* The digits captured by /Id="rId(\d+)"/ matched at position i; <<>> when it
\* does not match there.
RIdDigitsAt(relsXml, i) ==
    LET d == i + Len(ID_RID)
        e == DigitRunEnd(relsXml, d)
    IN  IF /\ StartsWithAt(relsXml, i, ID_RID)
           /\ e >= d
           /\ e + 1 <= Len(relsXml)
           /\ relsXml[e + 1] = QUOTE
        THEN Sub(relsXml, d, e)
        ELSE <<>>

\* relsXml.match(/Id="rId(\d+)"/g), then the largest parseInt of the captured
\* digits, 0 without a match.  Two matches cannot overlap, so the matches of
\* the global search are the positions where the expression matches.
getLastRId(relsXml) ==
    LET ids == {parseInt(RIdDigitsAt(relsXml, i)) :
                    i \in {j \in 1..Len(relsXml) : RIdDigitsAt(relsXml, j) # <<>>}}
    IN  IF ids = {} THEN 0 ELSE CHOOSE maxId \in ids : \A id \in ids : id <= maxId

RELS_CLOSE == <<"<","/","R","e","l","a","t","i","o","n","s","h","i","p","s",">">>
REL_HEAD == <<"<","R","e","l","a","t","i","o","n","s","h","i","p"," ","I","d","=","\"">>
REL_TYPE == <<"\""," ","T","y","p","e","=","\"","h","t","t","p",":","/","/","s","c","h","e","m","a","s",".","o","p","e","n","x","m","l","f","o","r","m","a","t","s",".","o","r","g","/","o","f","f","i","c","e","D","o","c","u","m","e","n","t","/","2","0","0","6","/","r","e","l","a","t","i","o","n","s","h","i","p","s","/","i","m","a","g","e","\""," ","T","a","r","g","e","t","=","\"">>
REL_TAIL == <<"\"","/",">">>

\* xml.replace("</Relationships>", `${relTag}</Relationships>`): the first
\* closing tag gets the entry before it; without one the text is unchanged.
addRelationship(xml, rId, target) ==
    LET at == IndexOfFrom(xml, RELS_CLOSE, 1)
    IN  IF at = 0 THEN xml
        ELSE Sub(xml, 1, at - 1) \o REL_HEAD \o rId \o REL_TYPE \o target \o REL_TAIL
                 \o Sub(xml, at, Len(xml))

\* generatePageBreakAndImageXml(rId): a page-break paragraph, then a paragraph
\* with the drawing that embeds rId.  The white space and the fixed extent and
\* picture markup around the blip are left out: they do not vary.
FRAGMENT_HEAD == <<"<","w",":","p",">","<","w",":","r",">","<","w",":","b","r"," ","w",":","t","y","p","e","=","\"","p","a","g","e","\"","/",">","<","/","w",":","r",">","<","/","w",":","p",">","<","w",":","p",">","<","w",":","r",">","<","w",":","d","r","a","w","i","n","g",">","<","a",":","b","l","i","p"," ","r",":","e","m","b","e","d","=","\"">>
FRAGMENT_TAIL == <<"\"","/",">","<","/","w",":","d","r","a","w","i","n","g",">","<","/","w",":","r",">","<","/","w",":","p",">">>

generatePageBreakAndImageXml(rId) == FRAGMENT_HEAD \o rId \o FRAGMENT_TAIL

RID == <<"r","I","d">>
MEDIA_PREFIX == <<"m","e","d","i","a","/","a","p","p","e","n","d","i","x","_","i","m","g","_">>
MEDIA_SUFFIX == <<".","j","p","g">>
WORD_DIR == <<"w","o","r","d","/">>

\* `media/appendix_img_${Date.now()}_${index}.jpg`
ImgFileName(now, index) ==
    MEDIA_PREFIX \o ToDecimal(now) \o <<"_">> \o ToDecimal(index) \o MEDIA_SUFFIX

\* zip.file(name, data) for a media part: a part of that name is replaced.
WithMedia(media, name, data) ==
    {m \in media : m.name # name} \cup {[name |-> name, data |-> data]}

\* images.forEach, from image k on: lastRId counts on from one image to the
\* next; the media part is written, the relationship added and the fragment
\* appended to xmlAppend.
RECURSIVE ForEachImage(_, _, _)
ForEachImage(images, k, acc) ==
    IF k > Len(images) THEN acc
    ELSE ForEachImage(images, k + 1,
             [lastRId |-> acc.lastRId + 1,
              media |-> WithMedia(acc.media,
                                  WORD_DIR \o ImgFileName(images[k].now, k - 1),
                                  images[k].data),
              relsXml |-> addRelationship(acc.relsXml,
                                          RID \o ToDecimal(acc.lastRId + 1),
                                          ImgFileName(images[k].now, k - 1)),
              xmlAppend |-> acc.xmlAppend
                                \o generatePageBreakAndImageXml(RID \o ToDecimal(acc.lastRId + 1)),
              ids |-> Append(acc.ids, RID \o ToDecimal(acc.lastRId + 1))])

BODY_CLOSE == <<"<","/","w",":","b","o","d","y",">">>

\* A splice before the first </w:body> instead.
SpliceFirstBody(docXml, xmlAppend) ==
    LET splitIndex == IndexOfFrom(docXml, BODY_CLOSE, 1)
    IN  IF docXml = NoPart \/ splitIndex = 0 THEN docXml
        ELSE Sub(docXml, 1, splitIndex - 1) \o xmlAppend \o Sub(docXml, splitIndex, Len(docXml))

\* Step 4 of appendImages: xmlAppend goes before the last </w:body> of the
\* main text part, when there is a part and it holds one.
SpliceBody(docXml, xmlAppend) ==
    LET splitIndex == LastIndexOfFrom(docXml, BODY_CLOSE, Len(docXml))
    IN  IF docXml = NoPart \/ splitIndex = 0 THEN docXml
        ELSE Sub(docXml, 1, splitIndex - 1) \o xmlAppend \o Sub(docXml, splitIndex, Len(docXml))

\* Steps 3 and 4 and the return: the archive is generated with the media
\* parts, the relationships part and the main text part as they are now.
AppendedArchive(zipIn, done) ==
    [error |-> "none",
     blob |-> Generate([zipIn EXCEPT !.media = done.media,
                                     !.rels = done.relsXml,
                                     !.document = SpliceBody(zipIn.document, done.xmlAppend)]),
     ids |-> done.ids]

\* Steps 1 and 2 for a relationships text relsXml.
AppendWithRels(zipIn, images, relsXml) ==
    AppendedArchive(zipIn,
        ForEachImage(images, 1,
            [lastRId |-> getLastRId(relsXml), media |-> zipIn.media,
             relsXml |-> relsXml, xmlAppend |-> <<>>, ids |-> <<>>]))

\* appendImages(initialDocxBlob, images): the blob it resolves to and the
\* identifiers it computed.
appendImages(initialDocxBlob, images) ==
    IF Len(images) = 0 THEN [error |-> "none", blob |-> initialDocxBlob, ids |-> <<>>]
    ELSE IF PizZipThrows(initialDocxBlob)
    THEN [error |-> "PizZip", blob |-> NoBytes, ids |-> <<>>]
    ELSE AppendWithRels(initialDocxBlob, images,
                        IF initialDocxBlob.rels = NoPart THEN <<>> ELSE initialDocxBlob.rels)

-----------------------------------------------------------------------------
(* Inputs *)

\* An inline markup element, and a noise element removeNoiseTags deletes.
TAG == <<"<","t",">">>
NOISE == <<"<","w",":","l","a","n","g","/",">">>

HealPieces == {<<LBRACE>>, <<RBRACE>>, <<"a">>, <<" ">>, TAG, NOISE}

\* The parts of the scenarios "{{na + inline markup + me}}", a placeholder
\* that spans two elements, and a name in markup with blanks around it.
HealScenarios ==
    {<<"{","{","n","a","<","t",">","m","e","}","}">>,
     <<"<","p",">","{","{","a","<","/","p",">","<","q",">","a","}","}","<","/","q",">">>,
     <<"{","{"," ","<","t",">","a","<","/","t",">"," ","}","}">>}

HealInputs == {Flatten(p) : p \in SeqsUpTo(HealPieces, MaxHealPieces)} \cup HealScenarios

DocPieces == {<<"a">>, <<"A">>, <<LBRACE>>, <<RBRACE>>, TAG, NOISE}

\* Two braces that only a noise element keeps apart, two letters in elements
\* of different names, a single-brace placeholder before a letter, a
\* placeholder whose opening braces a noise element keeps apart, and an opening
\* {{ that is never closed before a single-brace placeholder.
DocScenarios ==
    {<<LBRACE>> \o NOISE \o <<LBRACE>>,
     <<"<","p",">","a","<","/","p",">","<","q",">","A","<","/","q",">">>,
     <<"{","A","}","a">>,
     <<LBRACE>> \o NOISE \o <<"{","a","}","}">>,
     <<"{","{","a","{","A","}">>}

Documents == {Flatten(p) : p \in SeqsUpTo(DocPieces, MaxDocPieces)} \cup DocScenarios

\* What a user may open: well-typed packages with every document, one without
\* a main text part, packages the template engine cannot identify, and bytes
\* that are no archive.
Packages ==
    {Package(d, TRUE) : d \in Documents}
        \cup {Package(NoPart, TRUE), Package(NoPart, FALSE), Package(<<"a">>, FALSE), Corrupt}

SearchTexts == {<<"a">>, <<"a", "A">>, <<".">>, <<"<", "t", ">">>}

TagNames == {<<"n">>}

\* Pieces of the text given to findTags: placeholders of both conventions,
\* with and without white space inside, lone braces, a letter and white space.
TextPieces ==
    {<<"{","{","a","}","}">>,
     <<"{","{"," ","a","}","}">>,
     <<"{","{","B","}","}">>,
     <<"{","a","}">>,
     <<"{","B"," ","}">>,
     <<LBRACE>>, <<RBRACE>>, <<"a">>, <<" ">>, <<"\n">>}

\* A single-brace candidate whose name has n letters.
LongCandidate(n) == <<LBRACE>> \o [k \in 1..n |-> "a"] \o <<RBRACE>>

\* Candidates at the length threshold, one whose name holds a line break, and
\* a double-brace match with a blank name before a single-brace candidate.
TextScenarios ==
    {LongCandidate(NameLimit - 1), LongCandidate(NameLimit), LongCandidate(NameLimit + 1),
     <<"{","a","\n","a","}">>,
     <<"{","{"," ","}","}","{","a","}">>}

TextInputs == {Flatten(p) : p \in SeqsUpTo(TextPieces, MaxTextPieces)} \cup TextScenarios

\* Identifiers of the entries of a relationships part, with the number an
\* identifier of the form rIdN ends in (0 for another form).
EntryIds ==
    {[id |-> <<"r","I","d","1">>, suffix |-> 1],
     [id |-> <<"r","I","d","2">>, suffix |-> 2],
     [id |-> <<"r","I","d","1","0">>, suffix |-> 10],
     [id |-> <<"s","t","y","l","e","s">>, suffix |-> 0]}

RELS_OPEN == <<"<","R","e","l","a","t","i","o","n","s","h","i","p","s",">">>
ENTRY_TAIL == <<"\""," ","T","a","r","g","e","t","=","\"","x","\"","/",">">>

RelEntry(e) == REL_HEAD \o e.id \o ENTRY_TAIL

RECURSIVE RelEntries(_)
RelEntries(entries) ==
    IF entries = <<>> THEN <<>> ELSE RelEntry(Head(entries)) \o RelEntries(Tail(entries))

\* The relationships parts with these entries: whole, cut before the closing
\* tag and, with no entry, empty or absent.
RelsParts(entries) ==
    {RELS_OPEN \o RelEntries(entries) \o RELS_CLOSE, RELS_OPEN \o RelEntries(entries)}
        \cup (IF entries = <<>> THEN {NoPart, <<>>} ELSE {})

\* Main text parts: absent, without a closing body tag, with one, with two,
\* and the closing tag alone.
AppendDocuments ==
    {NoPart,
     <<"<","w",":","p","/",">">>,
     <<"<","w",":","b","o","d","y",">","a","<","/","w",":","b","o","d","y",">">>,
     <<"a","<","/","w",":","b","o","d","y",">","b","<","/","w",":","b","o","d","y",">","c">>,
     BODY_CLOSE}

OldMedia == {[name |-> <<"w","o","r","d","/","m","e","d","i","a","/","i","m","a","g","e","1",".","j","p","g">>, data |-> "old"]}

FilledPackages(entries) ==
    {[kind |-> "zip", document |-> d, rels |-> r, media |-> OldMedia, typed |-> TRUE] :
        d \in AppendDocuments, r \in RelsParts(entries)}

\* An image: its bytes and the clock read when it is handled.
ImageReads == [data : {"p", "q"}, now : {41, 42}]

\* The clock does not run backwards from one image to the next.
ImageLists ==
    {l \in SeqsUpTo(ImageReads, MaxImages) :
        \A k \in 1..(Len(l) - 1) : l[k].now <= l[k + 1].now}

-----------------------------------------------------------------------------
(* Specification Spec: one DocxManager session *)

NoScan == [text |-> <<>>, zip |-> NullZip]

ViewIdle ==
    /\ cSearchText = <<>>
    /\ cTagName = <<>>
    /\ cSearchResults = <<>>
    /\ cError = "none"
    /\ cSuccessMsg = "none"
    /\ cRefreshPreviewTrigger = 0
    /\ cScanOf = NoScan
    /\ cPc = "off"

GenIdle ==
    /\ gAppendices = <<>>
    /\ gPreviewUrls = <<>>
    /\ gProcessing = FALSE
    /\ gTasks = <<>>
    /\ gChanges = 0
    /\ gPc = "off"

ScanIdle ==
    /\ sXml = <<>>
    /\ sText = <<>>
    /\ sLastIndex = 0
    /\ sMatches = <<>>
    /\ sSpans = <<>>
    /\ sPc = "off"

TagsIdle ==
    /\ tText = <<>>
    /\ tTags = NotRun
    /\ tAgain = NotRun
    /\ tPc = "off"

AppendIdle ==
    /\ aBlob = NoBytes
    /\ aEntries = <<>>
    /\ aImages = <<>>
    /\ aOut = NotRun
    /\ aIds = <<>>
    /\ aPc = "off"

HealIdle ==
    /\ hXml = <<>>
    /\ hDouble = TRUE
    /\ hOnce = NotRun
    /\ hTwice = NotRun
    /\ hPc = "off"

SessionInit ==
    /\ zip = NullZip
    /\ doc = "null"
    /\ originalContent = NoBytes
    /\ loadErrors = <<>>
    /\ delimiterConfig = DoubleDelimiters
    /\ call = [op |-> "none", error |-> "none", lastLoad |-> "none"]

Init == SessionInit /\ HealIdle /\ AppendIdle /\ TagsIdle /\ ScanIdle /\ ViewIdle /\ GenIdle

Become(s) ==
    /\ zip' = s.zip
    /\ doc' = s.doc
    /\ originalContent' = s.originalContent
    /\ loadErrors' = s.loadErrors
    /\ delimiterConfig' = s.delimiterConfig

\* The last call returned bytes: exportCurrentZip's blob.
Exported == IF call.op = "export" /\ call.error = "none" THEN {call.result} ELSE {}

\* What is opened over a session that has loaded before: the failing inputs,
\* two whole packages and the bytes just exported.
LaterPackages ==
    {Corrupt, Package(NoPart, FALSE), Package(NoPart, TRUE), Package(<<"a">>, TRUE)}

\* load resets every field before it reads the content, so the session a
\* package leaves does not depend on the session it is opened in: every
\* package is opened in the new session, and a few over a used one.
LoadInputs ==
    IF originalContent = NoBytes THEN Packages ELSE LaterPackages \cup Exported

\* How the most recent load ended, from the error it threw.
LoadOutcome(error) == IF error = "none" THEN "ok" ELSE "raised"

Load(content) ==
    LET r == load(content)
    IN  /\ Become(r.session)
        /\ call' = [op |-> "load", content |-> content, error |-> r.error,
                    reload |-> content \in Exported, pre |-> Current,
                    loadedBefore |-> call.lastLoad, lastLoad |-> LoadOutcome(r.error)]
        /\ UNCHANGED <<healVars, appVars, tagVars, scanVars, viewVars, genVars>>

ScanText(searchText) ==
    LET r == scanText(zip, searchText)
    IN  /\ call' = [op |-> "scan", searchText |-> searchText, error |-> r.error,
                    result |-> r.result, pre |-> Current,
                    loadedBefore |-> call.lastLoad, lastLoad |-> call.lastLoad]
        /\ UNCHANGED <<zip, doc, originalContent, loadErrors, delimiterConfig>>
        /\ UNCHANGED <<healVars, appVars, tagVars, scanVars, viewVars, genVars>>

\* How many occurrences scanText lists on the archive z, 0 when it throws.
Listed(z, searchText) ==
    IF z.kind = "null" \/ z.document = NoPart \/ RegExpThrows(PatternString(searchText))
    THEN 0
    ELSE Len(ScanMatches(z.document, searchText))

\* The selections offered: the indices the scan of the current part lists (or
\* index 0 when it lists none).
Selections(searchText) ==
    SUBSET (0..(Max(Listed(zip, searchText), 1) - 1))

ReplaceSpecificOccurrences(searchText, tagName, indicesToReplace) ==
    LET r == replaceSpecificOccurrences(Current, searchText, tagName, indicesToReplace)
    IN  /\ Become(r.session)
        /\ call' = [op |-> "replace", searchText |-> searchText, tagName |-> tagName,
                    indices |-> indicesToReplace, error |-> r.error,
                    matchCount |-> r.matchCount, found |-> r.found,
                    written |-> r.written, pre |-> Current,
                    loadedBefore |-> call.lastLoad,
                    lastLoad |-> IF r.matchCount > 0 THEN LoadOutcome(r.error)
                                 ELSE call.lastLoad]
        /\ UNCHANGED <<healVars, appVars, tagVars, scanVars, viewVars, genVars>>

ExportCurrentZip ==
    LET r == exportCurrentZip(zip)
    IN  /\ call' = [op |-> "export", error |-> r.error, result |-> r.result,
                    pre |-> Current,
                    loadedBefore |-> call.lastLoad, lastLoad |-> call.lastLoad]
        /\ UNCHANGED <<zip, doc, originalContent, loadErrors, delimiterConfig>>
        /\ UNCHANGED <<healVars, appVars, tagVars, scanVars, viewVars, genVars>>

GetTags ==
    LET r == getTags(zip, doc)
    IN  /\ call' = [op |-> "tags", error |-> r.error, result |-> r.result,
                    pre |-> Current,
                    loadedBefore |-> call.lastLoad, lastLoad |-> call.lastLoad]
        /\ UNCHANGED <<zip, doc, originalContent, loadErrors, delimiterConfig>>
        /\ UNCHANGED <<healVars, appVars, tagVars, scanVars, viewVars, genVars>>

Next ==
    \/ \E content \in LoadInputs : Load(content)
    \/ \E searchText \in SearchTexts : ScanText(searchText)
    \/ \E searchText \in SearchTexts, tagName \in TagNames :
          \E indicesToReplace \in Selections(searchText) :
              ReplaceSpecificOccurrences(searchText, tagName, indicesToReplace)
    \/ ExportCurrentZip
    \/ GetTags

Spec == Init /\ [][Next]_vars

-----------------------------------------------------------------------------
(* Specification SpecHeal: TagNormalizer.normalize applied, and applied again *)

SessionIdle ==
    /\ zip = NullZip
    /\ doc = "null"
    /\ originalContent = NoBytes
    /\ loadErrors = <<>>
    /\ delimiterConfig = DoubleDelimiters
    /\ call = [op |-> "none", error |-> "none", lastLoad |-> "none"]

HealInit ==
    /\ hXml \in HealInputs
    /\ hDouble \in BOOLEAN
    /\ hOnce = NotRun
    /\ hTwice = NotRun
    /\ hPc = "start"
    /\ SessionIdle
    /\ AppendIdle
    /\ TagsIdle
    /\ ScanIdle
    /\ ViewIdle
    /\ GenIdle

Normalize ==
    /\ hPc = "start"
    /\ hOnce' = normalize(hXml, hDouble)
    /\ hPc' = "healed"
    /\ UNCHANGED <<hXml, hDouble, hTwice>>
    /\ UNCHANGED <<sessVars, appVars, tagVars, scanVars, viewVars, genVars>>

NormalizeAgain ==
    /\ hPc = "healed"
    /\ hTwice' = normalize(hOnce, hDouble)
    /\ hPc' = "rehealed"
    /\ UNCHANGED <<hXml, hDouble, hOnce>>
    /\ UNCHANGED <<sessVars, appVars, tagVars, scanVars, viewVars, genVars>>

HealNext == Normalize \/ NormalizeAgain

SpecHeal == HealInit /\ [][HealNext]_vars

-----------------------------------------------------------------------------
(* Specification SpecAppend: DocxAppender.appendImages applied to a package *)

AppendInit ==
    /\ aEntries \in SeqsUpTo(EntryIds, MaxRels)
    /\ aBlob \in FilledPackages(aEntries) \cup {Corrupt}
    /\ aImages \in ImageLists
    /\ aOut = NotRun
    /\ aIds = <<>>
    /\ aPc = "start"
    /\ SessionIdle
    /\ HealIdle
    /\ TagsIdle
    /\ ScanIdle
    /\ ViewIdle
    /\ GenIdle

AppendImages ==
    /\ aPc = "start"
    /\ LET r == appendImages(aBlob, aImages)
       IN  /\ aOut' = [error |-> r.error, blob |-> r.blob]
           /\ aIds' = r.ids
    /\ aPc' = "done"
    /\ UNCHANGED <<aBlob, aEntries, aImages>>
    /\ UNCHANGED <<sessVars, healVars, tagVars, scanVars, viewVars, genVars>>

AppendNext == AppendImages

SpecAppend == AppendInit /\ [][AppendNext]_vars

-----------------------------------------------------------------------------
(* Specification SpecTags: TagDetector.findTags applied to a text, twice *)

TagsInit ==
    /\ tText \in TextInputs
    /\ tTags = NotRun
    /\ tAgain = NotRun
    /\ tPc = "start"
    /\ SessionIdle
    /\ HealIdle
    /\ AppendIdle
    /\ ScanIdle
    /\ ViewIdle
    /\ GenIdle

FindTags ==
    /\ tPc = "start"
    /\ tTags' = findTags(tText)
    /\ tPc' = "found"
    /\ UNCHANGED <<tText, tAgain>>
    /\ UNCHANGED <<sessVars, healVars, appVars, scanVars, viewVars, genVars>>

FindTagsAgain ==
    /\ tPc = "found"
    /\ tAgain' = findTags(tText)
    /\ tPc' = "again"
    /\ UNCHANGED <<tText, tTags>>
    /\ UNCHANGED <<sessVars, healVars, appVars, scanVars, viewVars, genVars>>

TagsNext == FindTags \/ FindTagsAgain

SpecTags == TagsInit /\ [][TagsNext]_vars

-----------------------------------------------------------------------------
(* Claims about TagNormalizer *)

\* C5: healing is idempotent: normalize(normalize(x)) = normalize(x) for every
\* content x under either delimiter convention.
C5_HealingIdempotent == hPc = "rehealed" => hTwice = hOnce

\* The positions where a {{ ... }} span of s opens: a {{ with a }} after it.
SpanStarts(s) ==
    {i \in 1..Len(s) :
        /\ StartsWithAt(s, i, <<LBRACE, LBRACE>>)
        /\ IndexOfFrom(s, <<RBRACE, RBRACE>>, i + 2) # 0}

\* What lies between the opening marker at i and the first closing marker.
SpanInner(s, i) == Sub(s, i + 2, IndexOfFrom(s, <<RBRACE, RBRACE>>, i + 2) - 1)

HasMarkupOrBrace(t) ==
    \E k \in 1..Len(t) : IsBrace(t[k]) \/ TagEndAt(t, k) # 0

ScenarioA == <<"{","{","n","a","<","t",">","m","e","}","}">>
ScenarioAHealed == <<"{","{","n","a","m","e","}","}">>

\* C7: after healing under the double-marker convention no {{ ... }} span holds
\* a markup element or a single { or } between its markers, and
\* {{na<t>me}} has become {{name}}.
C7_SpansHoldNoMarkup ==
    (hPc \in {"healed", "rehealed"} /\ hDouble) =>
        /\ \A i \in SpanStarts(hOnce) : ~HasMarkupOrBrace(SpanInner(hOnce, i))
        /\ hXml = ScenarioA => hOnce = ScenarioAHealed

C7_Witness ==
    /\ hPc = "healed"
    /\ hDouble
    /\ hXml = ScenarioA
    /\ hOnce = ScenarioAHealed

-----------------------------------------------------------------------------
(* Claims about DocxManager *)

\* The last call was replaceSpecificOccurrences on an open archive with a main
\* text part, and its pattern compiled.
ReplacePassRan == call.op = "replace" /\ call.matchCount >= 0

\* The occurrences scanText lists for the replace call's text in the part as
\* it was before the call.
ScannedBefore == ScanMatches(call.pre.zip.document, call.searchText)

\* The occurrences the mutating pass turned into the placeholder.
Converted ==
    {call.found[k] : k \in {j \in 1..Len(call.found) : (j - 1) \in call.indices}}

\* C1: for a non-empty selection S of the indices scan returns, replaceSelected
\* converts exactly the occurrences scan reported at the indices in S (index i
\* of the scan and index i of the mutating pass are the same occurrence).
C1_SelectedScanOccurrencesConverted ==
    (/\ ReplacePassRan
     /\ call.indices # {}
     /\ call.indices \subseteq 0..(Len(ScannedBefore) - 1)) =>
        Converted = {ScannedBefore[i + 1] : i \in call.indices}

\* The part with the matches numbered in S replaced by the token, the last
\* match first.
RECURSIVE SpliceSelected(_, _, _, _, _)
SpliceSelected(xml, found, k, S, token) ==
    IF k = 0 THEN xml
    ELSE SpliceSelected(
             IF (k - 1) \in S
             THEN Sub(xml, 1, found[k].start - 1) \o token
                      \o Sub(xml, found[k].end + 1, Len(xml))
             ELSE xml,
             found, k - 1, S, token)

\* C2: after a successful replaceSelected the main text part is the part before
\* the call with each selected match replaced by {{name}} and every other byte
\* as it was, under either delimiter convention.
C2_OnlySelectedMatchesChange ==
    (ReplacePassRan /\ call.error = "none") =>
        zip.document = SpliceSelected(call.pre.zip.document, call.found,
                                      Len(call.found), call.indices,
                                      NewTag(call.tagName))

\* C3: when the mutating pass finds no match the call raises TextNotFound and
\* the session (archive, stored bytes, delimiters, load errors) is as before.
C3_NoMatchLeavesSession ==
    (call.op = "replace" /\ call.matchCount = 0) =>
        /\ call.error = "Text not found"
        /\ Current = call.pre

C3_Witness ==
    /\ call.op = "replace"
    /\ call.matchCount = 0
    /\ call.indices # {}
    /\ call.error = "Text not found"
    /\ zip.kind = "zip"
    /\ originalContent # Generate(zip)

\* No character of the text occurs in the part, in either case.
OccursNowhere(searchText, xml) ==
    \A k \in 1..Len(searchText), j \in 1..Len(xml) :
        ToLowerChar(searchText[k]) # ToLowerChar(xml[j])

\* C4: for every search text, punctuation included, that has no occurrence in
\* the loaded main text part, scan returns an empty sequence and does not raise.
C4_ScanOfAbsentTextIsEmpty ==
    (/\ call.op = "scan"
     /\ zip.kind = "zip"
     /\ zip.document # NoPart
     /\ OccursNowhere(call.searchText, zip.document)) =>
        /\ call.error = "none"
        /\ call.result = <<>>

\* C6: loading the bytes that a session loaded from a valid package exports
\* gives the same package contents and the same delimiter convention as the
\* session exported.
C6_ExportLoadRoundTrip ==
    (call.op = "load" /\ call.reload /\ call.content.typed) =>
        /\ call.error = "none"
        /\ Generate(zip) = call.content
        /\ delimiterConfig = call.pre.delimiterConfig

-----------------------------------------------------------------------------
(* Claims about DocxAppender *)

Appended == aPc = "done" /\ aBlob.kind = "zip"

HasBodyClose(docXml) ==
    docXml # NoPart /\ \E p \in 1..Len(docXml) : StartsWithAt(docXml, p, BODY_CLOSE)

\* C8: a package without a main text part, or whose main text part holds no
\* </w:body>, comes back from appendImages unchanged, with no media part added
\* and the relationships part neither modified nor created, and nothing is raised.
C8_PassthroughWithoutAnchor ==
    (Appended /\ ~HasBodyClose(aBlob.document))
        => (aOut.error = "none" /\ aOut.blob = aBlob)

\* The largest number an identifier of the input relationships part ends in.
LargestSuffix ==
    IF aEntries = <<>> THEN 0
    ELSE CHOOSE m \in {aEntries[k].suffix : k \in 1..Len(aEntries)} :
             \A k \in 1..Len(aEntries) : aEntries[k].suffix <= m

\* C9: with m the largest numeric suffix among the identifiers present (0 with
\* none), the n images get rId(m+1), ..., rId(m+n) in input order; none is an
\* identifier already present and no two are equal.
C9_FreshIdentifiersInOrder ==
    (Appended /\ Len(aImages) > 0) =>
        /\ Len(aIds) = Len(aImages)
        /\ \A k \in 1..Len(aIds) : aIds[k] = RID \o ToDecimal(LargestSuffix + k)
        /\ \A k \in 1..Len(aIds), e \in 1..Len(aEntries) : aIds[k] # aEntries[e].id
        /\ \A j, k \in 1..Len(aIds) : j # k => aIds[j] # aIds[k]

C9_Witness ==
    /\ Appended
    /\ Len(aEntries) = 2
    /\ aEntries[1].suffix = 10
    /\ aEntries[2].suffix = 2
    /\ aIds = << <<"r","I","d","1","1">>, <<"r","I","d","1","2">> >>

\* The page fragments of the identifiers from the k-th on, one after the other.
RECURSIVE FragmentsFrom(_, _)
FragmentsFrom(ids, k) ==
    IF k > Len(ids) THEN <<>>
    ELSE generatePageBreakAndImageXml(ids[k]) \o FragmentsFrom(ids, k + 1)

LastBodyClose(docXml) ==
    CHOOSE p \in 1..Len(docXml) :
        /\ StartsWithAt(docXml, p, BODY_CLOSE)
        /\ \A q \in (p + 1)..Len(docXml) : ~StartsWithAt(docXml, q, BODY_CLOSE)

\* C10: when the main text part holds </w:body>, the part afterwards is the
\* original with the n page fragments, in image order, as one block right
\* before the last </w:body>; every other byte is as it was.
C10_FragmentsBeforeLastBodyClose ==
    (Appended /\ Len(aImages) > 0 /\ HasBodyClose(aBlob.document)) =>
        LET docXml == aBlob.document
            p == LastBodyClose(docXml)
        IN  aOut.blob.document =
                Sub(docXml, 1, p - 1) \o FragmentsFrom(aIds, 1) \o Sub(docXml, p, Len(docXml))

C10_Witness ==
    /\ Appended
    /\ Len(aImages) = 2
    /\ Len(aIds) = 2
    /\ \E p, q \in 1..Len(aBlob.document) :
           p < q /\ StartsWithAt(aBlob.document, p, BODY_CLOSE)
                 /\ StartsWithAt(aBlob.document, q, BODY_CLOSE)
    /\ Len(aOut.blob.document) > Len(aBlob.document)

-----------------------------------------------------------------------------
(* Claims about TagDetector *)

Found == tPc \in {"found", "again"}

\* What lies between the markers of a raw placeholder.
InnerOf(raw) ==
    IF StartsWithAt(raw, 1, <<LBRACE, LBRACE>>) THEN Sub(raw, 3, Len(raw) - 2)
    ELSE Sub(raw, 2, Len(raw) - 1)

HasLineBreak(t) == \E k \in 1..Len(t) : t[k] = "\n"

\* The raw forms of the matches findTags considers in the text, in document
\* order: the double-brace matches, or without any the single-brace matches
\* whose name is short and on one line.
Candidates ==
    LET doubles == DoubleMatches(tText, 1)
        singles == SingleMatches(tText, 1)
    IN  IF Len(doubles) > 0 THEN [k \in 1..Len(doubles) |-> doubles[k].raw]
        ELSE SelectSeq([k \in 1..Len(singles) |-> singles[k].raw],
                       LAMBDA raw : /\ Len(Trim(InnerOf(raw))) < NameLimit
                                    /\ ~HasLineBreak(Trim(InnerOf(raw))))

\* C14: the keys of an extraction result are pairwise distinct, each key is the
\* trimmed inner name, and matches with the same trimmed name give exactly one
\* entry, whose raw form is that of the first such match in document order.
C14_KeysDistinctFirstRawWins ==
    Found =>
        /\ \A j, k \in 1..Len(tTags) : j # k => tTags[j].id # tTags[k].id
        /\ \A k \in 1..Len(tTags) :
              /\ tTags[k].id = Trim(InnerOf(tTags[k].raw))
              /\ tTags[k].name = tTags[k].id
              /\ \E m \in 1..Len(Candidates) :
                    /\ Candidates[m] = tTags[k].raw
                    /\ \A n \in 1..(m - 1) : Trim(InnerOf(Candidates[n])) # tTags[k].id
        /\ \A m \in 1..Len(Candidates) :
              Trim(InnerOf(Candidates[m])) # <<>> =>
                  \E k \in 1..Len(tTags) : tTags[k].id = Trim(InnerOf(Candidates[m]))

C14_Witness ==
    /\ Found
    /\ tText = <<"{","{"," ","a","}","}","{","{","a","}","}">>
    /\ Len(tTags) = 1
    /\ tTags[1].id = <<"a">>
    /\ tTags[1].raw = <<"{","{"," ","a","}","}">>

\* The characters of the modelled alphabet in the order of their code units.
CodeUnitOrder == <<"\n", " ">> \o UpperCase \o LowerCase \o <<"{", "}">>

CodeUnit(c) == CHOOSE k \in 1..Len(CodeUnitOrder) : CodeUnitOrder[k] = c

CodeUnits(t) == [k \in 1..Len(t) |-> CodeUnit(t[k])]

\* C15: the extractor's result is sorted by name in case-sensitive lexical
\* order (an upper-case initial before every lower-case initial) and is the
\* same on every call for the same text.
C15_SortedCaseSensitive ==
    /\ Found =>
          \A k \in 1..(Len(tTags) - 1) :
              CompareKeys(CodeUnits(tTags[k].name), CodeUnits(tTags[k + 1].name)) < 0
    /\ tPc = "again" => tAgain = tTags

NoDoublePlaceholder == \A i \in 1..Len(tText) : DoubleMatchAt(tText, i) = 0

\* {x} from position i to position j: the opening brace not preceded by "{",
\* the closing one not followed by "}", x without brace or line break and not
\* empty once trimmed.
SingleCandidate(i, j) ==
    /\ i < j
    /\ tText[i] = LBRACE
    /\ tText[j] = RBRACE
    /\ (i = 1 \/ tText[i - 1] # LBRACE)
    /\ (j = Len(tText) \/ tText[j + 1] # RBRACE)
    /\ \A p \in (i + 1)..(j - 1) : ~IsBrace(tText[p]) /\ tText[p] # "\n"
    /\ Trim(Sub(tText, i + 1, j - 1)) # <<>>

Yields(name) == \E k \in 1..Len(tTags) : tTags[k].name = name

-----------------------------------------------------------------------------
(* Claims about the session's errors and the delimiter detection *)

NoDocumentErrors == {"No document loaded", "No file loaded"}

SessionOps == {"scan", "replace", "tags", "export"}

\* C11: while no document is loaded (before the first load, or after a load
\* that raised) scan, replaceSelected, extractPlaceholders and exportRaw raise
\* the no-document-loaded error and leave the session as it is; after a
\* successful load they do not raise that error.
C11_NoDocumentLoadedRaised ==
    call.op \in SessionOps =>
        /\ call.loadedBefore \in {"none", "raised"} =>
              (call.error \in NoDocumentErrors /\ Current = call.pre)
        /\ call.loadedBefore = "ok" => call.error \notin NoDocumentErrors

\* C12: a load that fails leaves what a successful load had set: the archive
\* parts, the stored original bytes and the delimiter convention.
C12_FailedLoadKeepsPriorState ==
    (call.op = "load" /\ call.error # "none" /\ call.loadedBefore = "ok") =>
        /\ zip = call.pre.zip
        /\ originalContent = call.pre.originalContent
        /\ delimiterConfig = call.pre.delimiterConfig

\* The convention of a raw package: single exactly when its main text part
\* holds no {{ and at least one {.
ConventionOf(content) ==
    IF /\ content.kind = "zip"
       /\ content.document # NoPart
       /\ \A i \in 1..Len(content.document) :
              ~StartsWithAt(content.document, i, <<LBRACE, LBRACE>>)
       /\ \E i \in 1..Len(content.document) : content.document[i] = LBRACE
    THEN SingleDelimiters
    ELSE DoubleDelimiters

\* C13: detection selects the single-marker convention exactly when the raw
\* main text part holds zero {{ and at least one {, and the double-marker
\* convention in every other case, an unopenable package or an absent part
\* included; it never raises.
C13_DetectionTotal ==
    call.op = "load" => delimiterConfig = ConventionOf(call.content)

C13_Witness ==
    /\ call.op = "load"
    /\ call.content.kind = "zip"
    /\ call.content.document = <<LBRACE, "a">>
    /\ delimiterConfig = SingleDelimiters

-----------------------------------------------------------------------------
(* Claims about the matcher and the structure of the part *)

\* The spans scanText matched in the last scan, and the part they are in.
ScanSpans ==
    IF call.op = "scan" /\ call.error = "none"
    THEN ScanMatches(zip.document, call.searchText)
    ELSE <<>>

\* The spans the mutating pass of the last replace visited.
ReplaceSpans == IF call.op = "replace" /\ call.matchCount >= 0 THEN call.found ELSE <<>>

SpanText(xml, m) == Sub(xml, m.start, m.end)

\* C17: every span matched by scan or by the mutating pass is the search
\* text's characters in order with only whole markup elements between them:
\* without its markup elements the span is the search text (up to case for
\* scan, exactly for replace).
C17_SpanIsSearchTextAndMarkup ==
    /\ \A k \in 1..Len(ScanSpans) :
          ToLower(StripTags(SpanText(zip.document, ScanSpans[k]))) = ToLower(call.searchText)
    /\ \A k \in 1..Len(ReplaceSpans) :
          StripTags(SpanText(call.pre.zip.document, ReplaceSpans[k])) = call.searchText

\* The positions of xml that lie inside a markup element.
RECURSIVE MarkupFrom(_, _)
MarkupFrom(xml, i) ==
    IF i > Len(xml) THEN {}
    ELSE LET e == TagEndAt(xml, i)
         IN  IF e # 0 THEN (i..e) \cup MarkupFrom(xml, e + 1) ELSE MarkupFrom(xml, i + 1)

\* The characters of span m outside markup are as many as the search text's,
\* and the span neither starts nor ends inside a markup element.
OnlyReadableText(xml, m, searchText) ==
    /\ m.start \notin MarkupFrom(xml, 1)
    /\ m.end \notin MarkupFrom(xml, 1)
    /\ Cardinality((m.start..m.end) \ MarkupFrom(xml, 1)) = Len(searchText)

\* C18: scan reports and replaceSelected replaces only occurrences made of
\* readable text: no character of a markup element is matched as one of the
\* search text's characters, so no part of a markup element is altered.
C18_MatchesOnlyReadableText ==
    /\ \A k \in 1..Len(ScanSpans) :
          OnlyReadableText(zip.document, ScanSpans[k], call.searchText)
    /\ \A k \in 1..Len(ReplaceSpans) :
          OnlyReadableText(call.pre.zip.document, ReplaceSpans[k], call.searchText)

\* What stands between "<" and ">" in the element from i to e.
TagBody(xml, i, e) == Sub(xml, i + 1, e - 1)

\* The element name of a tag body, the "/" of a closing tag left out.
ElementName(body) ==
    LET from == IF Head(body) = "/" THEN 2 ELSE 1
    IN  Sub(body, from, RunEnd(body, from, {" ", "/"}) - 1)

\* Every element opened from position i on is closed and nested, given the
\* names of the elements open at i; a "<" that starts no element is an error.
RECURSIVE NestedFrom(_, _, _)
NestedFrom(xml, i, open) ==
    IF i > Len(xml) THEN open = <<>>
    ELSE LET e == TagEndAt(xml, i)
         IN  IF e = 0 THEN xml[i] # "<" /\ NestedFrom(xml, i + 1, open)
             ELSE IF Head(TagBody(xml, i, e)) = "/"
             THEN /\ open # <<>>
                  /\ open[Len(open)] = ElementName(TagBody(xml, i, e))
                  /\ NestedFrom(xml, e + 1, Sub(open, 1, Len(open) - 1))
             ELSE IF xml[e - 1] = "/" THEN NestedFrom(xml, e + 1, open)
             ELSE NestedFrom(xml, e + 1, Append(open, ElementName(TagBody(xml, i, e))))

WellFormed(xml) == NestedFrom(xml, 1, <<>>)

\* C19: replaceSelected preserves well-formedness: a main text part whose
\* elements are closed and nested before a successful call is so after it,
\* also when the characters of a match lie in different elements.
C19_ReplaceKeepsWellFormed ==
    (/\ call.op = "replace"
     /\ call.error = "none"
     /\ WellFormed(call.pre.zip.document)) => WellFormed(zip.document)

\* C20: healing preserves well-formedness: a part whose elements are closed and
\* nested before healing is so after split-marker repair and consolidation,
\* also when {{ and the next }} lie in different elements.
C20_HealingKeepsWellFormed ==
    (hPc \in {"healed", "rehealed"} /\ hDouble /\ WellFormed(hXml)) => WellFormed(hOnce)

-----------------------------------------------------------------------------
(* Claims about the re-emitted tokens and the extractor's filters *)

\* C21: consolidation re-emits each double-delimited span as {{ + trimmed name
\* + }}: what stands between the markers of a token of the healed part has no
\* leading and no trailing white space.
C21_TokensHoldTrimmedName ==
    (hPc \in {"healed", "rehealed"} /\ hDouble) =>
        \A i \in SpanStarts(hOnce) : SpanInner(hOnce, i) = Trim(SpanInner(hOnce, i))

\* C22: a single-marker candidate is rejected exactly when its trimmed inner
\* content is longer than NameLimit characters or holds a line break: one of
\* exactly NameLimit characters on one line is accepted.
C22_RejectedExactlyAboveLimit ==
    (Found /\ NoDoublePlaceholder) =>
        \A k \in 1..Len(SingleMatches(tText, 1)) :
            LET name == Trim(InnerOf(SingleMatches(tText, 1)[k].raw))
            IN  name # <<>> =>
                    (Yields(name) <=> ~(Len(name) > NameLimit \/ HasLineBreak(name)))

BlankThenSingle == <<"{","{"," ","}","}","{","a","}">>

\* C23: when the double-marker scan finds a match, the result holds no
\* placeholder of a single-marker match, also when the double-marker matches
\* give no placeholder (blank names); placeholders of single-marker matches
\* appear only when the double-marker scan finds nothing.
C23_SingleScanOnlyWithoutDouble ==
    Found =>
        /\ ~NoDoublePlaceholder =>
              \A k \in 1..Len(tTags) :
                  \E m \in 1..Len(DoubleMatches(tText, 1)) :
                      DoubleMatches(tText, 1)[m].raw = tTags[k].raw
        /\ (\E k \in 1..Len(tTags) : ~StartsWithAt(tTags[k].raw, 1, <<LBRACE, LBRACE>>))
              => NoDoublePlaceholder

C23_Witness ==
    /\ Found
    /\ tText = BlankThenSingle
    /\ ~NoDoublePlaceholder
    /\ SingleMatches(tText, 1) # <<>>
    /\ tTags = <<>>

-----------------------------------------------------------------------------
(* Claims about the relationship entries of the appended pages *)

\* The entry addRelationship writes for identifier rId and target part target.
ImageEntry(rId, target) == REL_HEAD \o rId \o REL_TYPE \o target \o REL_TAIL

\* How many entries of the relationships text carry the identifier rId.
EntriesWithId(relsXml, rId) == CountFrom(relsXml, REL_HEAD \o rId \o <<QUOTE>>, 1)

EndsWith(s, p) == StartsWithAt(s, Len(s) - Len(p) + 1, p)

\* C24: after appendImages with n >= 1 images, for each identifier embedded in
\* an appended fragment the relationships part holds exactly one entry with
\* that identifier, of image type, whose target is the media part written for
\* that image; the media part is in the package; and the relationships part
\* ends with its closing root tag, also when the input's relationships part is
\* absent, empty or without </Relationships>.
C24_FragmentsKeyedToOneEntry ==
    (Appended /\ Len(aImages) > 0 /\ HasBodyClose(aBlob.document)) =>
        /\ \A k \in 1..Len(aIds) :
              /\ EntriesWithId(aOut.blob.rels, aIds[k]) = 1
              /\ IndexOfFrom(aOut.blob.rels,
                             ImageEntry(aIds[k], ImgFileName(aImages[k].now, k - 1)), 1) # 0
              /\ [name |-> WORD_DIR \o ImgFileName(aImages[k].now, k - 1),
                  data |-> aImages[k].data] \in aOut.blob.media
        /\ EndsWith(aOut.blob.rels, RELS_CLOSE)

-----------------------------------------------------------------------------
(* Claims about the session after a load or a replace *)

\* The last call was a load or a replace that wrote the part, and it returned.
LoadedOrReplaced ==
    /\ call.error = "none"
    /\ \/ call.op = "load"
       \/ call.op = "replace" /\ call.matchCount > 0

\* C25: after every successful load and every successful replaceSelected the
\* session is what load of its stored original bytes produces: the convention
\* is the one detected from those bytes and the archive's main text part is
\* their main text part healed under it, so that the content generateDocument
\* heals from the stored bytes is the content exportCurrentZip writes.
C25_SessionIsLoadOfStoredBytes ==
    LoadedOrReplaced =>
        /\ delimiterConfig = ConventionOf(originalContent)
        /\ zip.document =
              IF originalContent.document = NoPart THEN NoPart
              ELSE normalize(originalContent.document, delimiterConfig = DoubleDelimiters)
        /\ Current = load(originalContent).session
        /\ healDocumentXml(originalContent, delimiterConfig) = exportCurrentZip(zip).result

C25_Witness ==
    /\ call.op = "replace"
    /\ call.error = "none"
    /\ call.matchCount > 0
    /\ call.indices # {}
    /\ call.pre.delimiterConfig = SingleDelimiters
    /\ delimiterConfig = DoubleDelimiters
    /\ originalContent.document = call.written
    /\ zip.document # call.written

\* The names getTags returns on a session.
TagNamesOf(s) ==
    LET r == getTags(s.zip, s.doc).result
    IN  {r[k].name : k \in 1..Len(r)}

\* The placeholders getTags returned before the call whose text has no
\* character of the search text, so that no replaced span holds any of it.
UntouchedBefore ==
    LET r == getTags(call.pre.zip, call.pre.doc).result
    IN  {r[k].name : k \in {j \in 1..Len(r) :
            \A p \in 1..Len(r[j].raw), q \in 1..Len(call.searchText) :
                r[j].raw[p] # call.searchText[q]}}

\* C26: a successful replaceSelected only adds the new placeholder: every
\* placeholder getTags returned before the call, and whose text was not part
\* of a replaced span, is returned after it, under either convention.
C26_ReplaceKeepsPlaceholders ==
    (call.op = "replace" /\ call.error = "none" /\ call.matchCount > 0) =>
        UntouchedBefore \subseteq TagNamesOf(Current)

\* C27: in every loaded state the convention under which the extractor
\* recognises placeholders is the session's active convention: getTags returns
\* double-marker placeholders only under the double-marker convention and
\* single-marker placeholders only under the single-marker convention.
C27_ExtractorFollowsConvention ==
    zip.kind = "zip" =>
        LET r == getTags(zip, doc).result
        IN  \A k \in 1..Len(r) :
                IF StartsWithAt(r[k].raw, 1, <<LBRACE, LBRACE>>)
                THEN delimiterConfig = DoubleDelimiters
                ELSE delimiterConfig = SingleDelimiters

-----------------------------------------------------------------------------
(* Specification SpecScan: the loop of DocxManager.scanText, one regex.exec *)
(* per step                                                                *)

\* regex.exec(xml) with flags "gi" from lastIndex: the span matched, as a
\* sequence of one span, or <<>> for null.  The pattern of an empty search
\* text is empty and matches the empty string where the search starts.
ExecFrom(xml, searchText, lastIndex) ==
    IF searchText = <<>>
    THEN (IF lastIndex <= Len(xml)
          THEN <<[start |-> lastIndex + 1, end |-> lastIndex]>>
          ELSE <<>>)
    ELSE LET found == MatchesFrom(xml, lastIndex + 1, Atoms(PatternString(searchText)), TRUE)
         IN  IF found = <<>> THEN <<>> ELSE <<found[1]>>

\* The main text parts of the archives a session holds after load.
LoadedParts ==
    {load(Package(d, TRUE)).session.zip.document : d \in Documents} \cup {NoPart}

ScanTexts == SearchTexts \cup {<<>>}

ScanInit ==
    /\ sXml \in LoadedParts
    /\ sText \in ScanTexts
    /\ sLastIndex = 0
    /\ sMatches = <<>>
    /\ sSpans = <<>>
    /\ sPc = "call"
    /\ SessionIdle
    /\ HealIdle
    /\ AppendIdle
    /\ TagsIdle
    /\ ViewIdle
    /\ GenIdle

\* The part is read and the expression built: either throws.
ScanEnter ==
    /\ sPc = "call"
    /\ sPc' = IF sXml = NoPart \/ RegExpThrows(PatternString(sText))
              THEN "raised"
              ELSE "loop"
    /\ UNCHANGED <<sXml, sText, sLastIndex, sMatches, sSpans>>
    /\ UNCHANGED <<sessVars, healVars, appVars, tagVars, viewVars, genVars>>

\* The loop condition: match = regex.exec(xml).  A match moves lastIndex to
\* its end and enters the body; null resets lastIndex, ends the loop and
\* returns matches.  Of a loop that goes on, the first MaxScanMatches matches
\* are kept.
ScanExec ==
    /\ sPc = "loop"
    /\ LET match == ExecFrom(sXml, sText, sLastIndex)
       IN  IF match = <<>>
           THEN /\ sLastIndex' = 0
                /\ sPc' = "returned"
                /\ UNCHANGED sSpans
           ELSE /\ sLastIndex' = match[1].end
                /\ sPc' = "body"
                /\ sSpans' = IF Len(sSpans) < MaxScanMatches
                             THEN Append(sSpans, match[1])
                             ELSE sSpans
    /\ UNCHANGED <<sXml, sText, sMatches>>
    /\ UNCHANGED <<sessVars, healVars, appVars, tagVars, viewVars, genVars>>

\* The body of the loop: the occurrence is pushed with the next count.  The
\* context string pushed with it is ContextOf of the match, as in scanText
\* above; it plays no part in the loop and is left out of the entries here.
ScanPush ==
    /\ sPc = "body"
    /\ sMatches' = IF Len(sMatches) < MaxScanMatches
                   THEN Append(sMatches, [index |-> Len(sMatches)])
                   ELSE sMatches
    /\ sPc' = "loop"
    /\ UNCHANGED <<sXml, sText, sLastIndex, sSpans>>
    /\ UNCHANGED <<sessVars, healVars, appVars, tagVars, viewVars, genVars>>

ScanNext == ScanEnter \/ ScanExec \/ ScanPush

\* scanText is straight-line code on one thread: a step that can be taken is.
SpecScan == ScanInit /\ [][ScanNext]_vars /\ WF_vars(ScanNext)

\* C28: scanText terminates on every loaded document for every search text,
\* the empty one and a single character included, and what it returns has the
\* indices 0, 1, ..., k-1 in document order.
C28_ScanTerminatesInOrder ==
    /\ <>(sPc \in {"returned", "raised"})
    /\ [](sPc = "returned" =>
            /\ \A k \in 1..Len(sMatches) : sMatches[k].index = k - 1
            /\ \A k \in 1..(Len(sSpans) - 1) : sSpans[k].start < sSpans[k + 1].start)

-----------------------------------------------------------------------------
\* CreatorView (features/Creator.tsx): the search box, the list of occurrences
\* and the tag form over one loaded DocxManager.  isSearching is set and
\* cleared inside executeSearch and never read between two handlers, and
\* onTagsUpdated belongs to the parent; both are left out.

\* The documents the view is opened on.
CreatorDocuments ==
    {Flatten(p) : p \in SeqsUpTo({<<"a">>, <<"A">>, TAG}, MaxDocPieces)}

\* What is typed into the search box, the empty box included.
CreatorTexts == {<<>>, <<"a">>, <<"A">>}

\* What is selected in the preview panel.
PreviewSelections == {<<" ">>, <<"a", " ">>}

CreatorInit ==
    /\ \E d \in CreatorDocuments : 
          LET r == load(Package(d, TRUE))
          IN  /\ zip = r.session.zip
              /\ doc = r.session.doc
              /\ originalContent = r.session.originalContent
              /\ loadErrors = r.session.loadErrors
              /\ delimiterConfig = r.session.delimiterConfig
              /\ call = [op |-> "load", error |-> r.error, lastLoad |-> LoadOutcome(r.error)]
    /\ cSearchText = <<>>
    /\ cTagName = <<>>
    /\ cSearchResults = <<>>
    /\ cError = "none"
    /\ cSuccessMsg = "none"
    /\ cRefreshPreviewTrigger = 0
    /\ cScanOf = NoScan
    /\ cPc = "shown"
    /\ HealIdle /\ AppendIdle /\ TagsIdle /\ ScanIdle /\ GenIdle

\* onChange of the search box: setSearchText and nothing else.
TypeSearchText(text) ==
    /\ cPc = "shown"
    /\ text # cSearchText
    /\ cSearchText' = text
    /\ UNCHANGED <<cTagName, cSearchResults, cError, cSuccessMsg,
                   cRefreshPreviewTrigger, cScanOf, cPc>>
    /\ UNCHANGED <<sessVars, healVars, appVars, tagVars, scanVars, genVars>>

\* onChange of the tag box, which is rendered with the list of occurrences.
TypeTagName(name) ==
    /\ cPc = "shown"
    /\ cSearchResults # <<>>
    /\ name # cTagName
    /\ cTagName' = name
    /\ UNCHANGED <<cSearchText, cSearchResults, cError, cSuccessMsg,
                   cRefreshPreviewTrigger, cScanOf, cPc>>
    /\ UNCHANGED <<sessVars, healVars, appVars, tagVars, scanVars, genVars>>

\* executeSearch(text): nothing for an empty text; otherwise the list and the
\* message are cleared and the scan of text fills the list, every occurrence
\* selected, or sets the error.
executeSearch(text) ==
    IF text = <<>>
    THEN UNCHANGED <<cSearchResults, cError, cSuccessMsg, cScanOf, call>>
    ELSE LET r == scanText(zip, text)
         IN  /\ cSuccessMsg' = "none"
             /\ cSearchResults' =
                    IF r.error = "none"
                    THEN [k \in 1..Len(r.result) |->
                            [index |-> r.result[k].index,
                             context |-> r.result[k].context,
                             selected |-> TRUE]]
                    ELSE <<>>
             /\ cError' = IF r.error # "none" THEN "Search Error"
                          ELSE IF Len(r.result) = 0 THEN "Not Found"
                          ELSE "none"
             /\ cScanOf' = IF r.error = "none" /\ Len(r.result) > 0
                           THEN [text |-> text, zip |-> zip]
                           ELSE NoScan
             /\ call' = [op |-> "scan", searchText |-> text, error |-> r.error,
                         result |-> r.result, pre |-> Current,
                         loadedBefore |-> call.lastLoad, lastLoad |-> call.lastLoad]

\* The search button and the Enter key of the search box.
HandleSearchClick ==
    /\ cPc = "shown"
    /\ executeSearch(cSearchText)
    /\ UNCHANGED <<cSearchText, cTagName, cRefreshPreviewTrigger, cPc>>
    /\ UNCHANGED <<zip, doc, originalContent, loadErrors, delimiterConfig>>
    /\ UNCHANGED <<healVars, appVars, tagVars, scanVars, genVars>>

\* A selection made in the preview fills the search box and searches.
HandleTextSelectedFromPreview(text) ==
    /\ cPc = "shown"
    /\ IF Trim(text) # <<>>
       THEN /\ cSearchText' = Trim(text)
            /\ executeSearch(Trim(text))
       ELSE UNCHANGED <<cSearchText, cSearchResults, cError, cSuccessMsg, cScanOf, call>>
    /\ UNCHANGED <<cTagName, cRefreshPreviewTrigger, cPc>>
    /\ UNCHANGED <<zip, doc, originalContent, loadErrors, delimiterConfig>>
    /\ UNCHANGED <<healVars, appVars, tagVars, scanVars, genVars>>

ToggleSelection(index) ==
    /\ cPc = "shown"
    /\ cSearchResults' =
          [k \in 1..Len(cSearchResults) |->
              IF cSearchResults[k].index = index
              THEN [cSearchResults[k] EXCEPT !.selected = ~cSearchResults[k].selected]
              ELSE cSearchResults[k]]
    /\ UNCHANGED <<cSearchText, cTagName, cError, cSuccessMsg,
                   cRefreshPreviewTrigger, cScanOf, cPc>>
    /\ UNCHANGED <<sessVars, healVars, appVars, tagVars, scanVars, genVars>>

\* searchResults.filter(r => r.selected).map(r => r.index)
IndicesToReplace ==
    {cSearchResults[k].index : k \in {j \in 1..Len(cSearchResults) : cSearchResults[j].selected}}

\* The call handleApplyTags makes and what it sets after it: the form is
\* emptied when the call returns and the error is set when it throws.
ApplyReplace(searchText) ==
    LET r == replaceSpecificOccurrences(Current, searchText, cTagName, IndicesToReplace)
    IN  /\ Become(r.session)
        /\ call' = [op |-> "replace", searchText |-> searchText, tagName |-> cTagName,
                    indices |-> IndicesToReplace, error |-> r.error,
                    matchCount |-> r.matchCount, found |-> r.found,
                    written |-> r.written, pre |-> Current, scanOf |-> cScanOf,
                    loadedBefore |-> call.lastLoad,
                    lastLoad |-> IF r.matchCount > 0 THEN LoadOutcome(r.error)
                                 ELSE call.lastLoad]
        /\ IF r.error = "none"
           THEN /\ cSuccessMsg' = "replaced"
                /\ cSearchResults' = <<>>
                /\ cSearchText' = <<>>
                /\ cTagName' = <<>>
                /\ cScanOf' = NoScan
                /\ cRefreshPreviewTrigger' = cRefreshPreviewTrigger + 1
                /\ UNCHANGED cError
           ELSE /\ cError' = "Replacement Failed"
                /\ UNCHANGED <<cSearchText, cTagName, cSearchResults, cSuccessMsg,
                               cRefreshPreviewTrigger, cScanOf>>

\* The apply button, which is rendered with the list of occurrences.
HandleApplyTags ==
    /\ cPc = "shown"
    /\ cSearchResults # <<>>
    /\ cRefreshPreviewTrigger < MaxApplies
    /\ IF cTagName = <<>>
       THEN /\ cError' = "Missing Info"
            /\ UNCHANGED <<cSearchText, cTagName, cSearchResults, cSuccessMsg,
                           cRefreshPreviewTrigger, cScanOf, sessVars>>
       ELSE IF IndicesToReplace = {}
       THEN /\ cError' = "No Selection"
            /\ UNCHANGED <<cSearchText, cTagName, cSearchResults, cSuccessMsg,
                           cRefreshPreviewTrigger, cScanOf, sessVars>>
       ELSE ApplyReplace(cSearchText)
    /\ UNCHANGED cPc
    /\ UNCHANGED <<healVars, appVars, tagVars, scanVars, genVars>>

HandleDownloadTemplate ==
    /\ cPc = "shown"
    /\ LET r == exportCurrentZip(zip)
       IN  call' = [op |-> "export", error |-> r.error, result |-> r.result,
                    pre |-> Current,
                    loadedBefore |-> call.lastLoad, lastLoad |-> call.lastLoad]
    /\ UNCHANGED <<zip, doc, originalContent, loadErrors, delimiterConfig>>
    /\ UNCHANGED <<viewVars, healVars, appVars, tagVars, scanVars, genVars>>

CreatorNext ==
    \/ \E text \in CreatorTexts : TypeSearchText(text)
    \/ \E name \in TagNames \cup {<<>>} : TypeTagName(name)
    \/ HandleSearchClick
    \/ \E text \in PreviewSelections : HandleTextSelectedFromPreview(text)
    \/ \E index \in 0..(Len(cSearchResults) - 1) : ToggleSelection(index)
    \/ HandleApplyTags
    \/ HandleDownloadTemplate

SpecCreator == CreatorInit /\ [][CreatorNext]_vars

\* C29: whenever the view applies replacements, the search text it passes is
\* the text whose scan produced the occurrences in the list, and the document
\* is the one that scan read.
C29_AppliedToScannedText ==
    (cPc = "shown" /\ call.op = "replace") =>
        /\ call.searchText = call.scanOf.text
        /\ call.pre.zip = call.scanOf.zip

-----------------------------------------------------------------------------
\* GeneratorView (unnamed/part_001): the appendix list and the effect that
\* computes its preview images.  An object URL is modelled by the page it
\* shows, so URL.revokeObjectURL in the effect's cleanup is left out, and a
\* file rasterizes to the same pages every time it is converted.

\* The files offered to the appendix list, by id.
AppendixFiles ==
    {[id |-> 1, type |-> "pdf"], [id |-> 2, type |-> "image"], [id |-> 3, type |-> "pdf"]}

\* How many pages PdfRasterizer.convertToImages returns for a pdf.
PagesOf(item) == IF item.id = 1 THEN 2 ELSE 1

\* The URLs pushed for one item: one for an image, one per page for a pdf.
UrlsOfItem(item) ==
    IF item.type = "image" THEN <<[id |-> item.id, page |-> 1]>>
    ELSE [q \in 1..PagesOf(item) |-> [id |-> item.id, page |-> q]]

\* The loop of generateAppendixPreviews from item k on, with urls pushed so
\* far: it runs through the images and stops at the await of the next pdf, or
\* ends.
RECURSIVE RunPreviews(_, _, _)
RunPreviews(items, k, urls) ==
    IF k > Len(items) THEN [done |-> TRUE, items |-> items, at |-> k, urls |-> urls]
    ELSE IF items[k].type = "image"
    THEN RunPreviews(items, k + 1, urls \o UrlsOfItem(items[k]))
    ELSE [done |-> FALSE, items |-> items, at |-> k, urls |-> urls]

RemoveAt(q, i) == [k \in 1..(Len(q) - 1) |-> IF k < i THEN q[k] ELSE q[k + 1]]

\* setAppendices(newItems) and the effect it triggers, up to the first await.
SetAppendices(newItems) ==
    /\ gPc = "shown"
    /\ gChanges < MaxChanges
    /\ gChanges' = gChanges + 1
    /\ gAppendices' = newItems
    /\ IF newItems = <<>>
       THEN /\ gPreviewUrls' = <<>>
            /\ UNCHANGED <<gProcessing, gTasks>>
       ELSE LET t == RunPreviews(newItems, 1, <<>>)
            IN  IF t.done
                THEN /\ gPreviewUrls' = t.urls
                     /\ gProcessing' = FALSE
                     /\ UNCHANGED gTasks
                ELSE /\ gProcessing' = TRUE
                     /\ gTasks' = Append(gTasks, t)
                     /\ UNCHANGED gPreviewUrls
    /\ UNCHANGED gPc
    /\ UNCHANGED <<sessVars, healVars, appVars, tagVars, scanVars, viewVars>>

\* AppendicesModal.handleFiles through onUpdate: a new file joins the end.
AddAppendix(item) ==
    /\ \A k \in 1..Len(gAppendices) : gAppendices[k].id # item.id
    /\ SetAppendices(Append(gAppendices, item))

moveAppendix(index, direction) ==
    /\ index + direction >= 0
    /\ index + direction < Len(gAppendices)
    /\ SetAppendices([k \in 1..Len(gAppendices) |->
                        IF k = index + 1 THEN gAppendices[index + direction + 1]
                        ELSE IF k = index + direction + 1 THEN gAppendices[index + 1]
                        ELSE gAppendices[k]])

removeAppendix(id) ==
    SetAppendices(SelectSeq(gAppendices, LAMBDA a : a.id # id))

\* A pending convertToImages returns to call i of generateAppendixPreviews:
\* the pages are pushed and the loop goes on to the next await or to
\* setAppendixPreviewUrls(urls) and setIsPreviewProcessing(false).
PreviewResume(i) ==
    /\ gPc = "shown"
    /\ LET t == RunPreviews(gTasks[i].items, gTasks[i].at + 1,
                            gTasks[i].urls \o UrlsOfItem(gTasks[i].items[gTasks[i].at]))
       IN  IF t.done
           THEN /\ gPreviewUrls' = t.urls
                /\ gProcessing' = FALSE
                /\ gTasks' = RemoveAt(gTasks, i)
           ELSE /\ gTasks' = [gTasks EXCEPT ![i] = t]
                /\ UNCHANGED <<gPreviewUrls, gProcessing>>
    /\ UNCHANGED <<gAppendices, gChanges, gPc>>
    /\ UNCHANGED <<sessVars, healVars, appVars, tagVars, scanVars, viewVars>>

GeneratorInit ==
    /\ gAppendices = <<>>
    /\ gPreviewUrls = <<>>
    /\ gProcessing = FALSE
    /\ gTasks = <<>>
    /\ gChanges = 0
    /\ gPc = "shown"
    /\ SessionInit /\ HealIdle /\ AppendIdle /\ TagsIdle /\ ScanIdle /\ ViewIdle

GeneratorNext ==
    \/ \E item \in AppendixFiles : AddAppendix(item)
    \/ \E index \in 0..(Len(gAppendices) - 1), direction \in {-1, 1} :
          moveAppendix(index, direction)
    \/ \E k \in 1..Len(gAppendices) : removeAppendix(gAppendices[k].id)
    \/ \E i \in 1..Len(gTasks) : PreviewResume(i)

SpecGenerator == GeneratorInit /\ [][GeneratorNext]_vars

\* The preview images of a list: the URLs of its items in list order.
RECURSIVE PreviewOf(_)
PreviewOf(items) ==
    IF items = <<>> THEN <<>> ELSE UrlsOfItem(Head(items)) \o PreviewOf(Tail(items))

\* C30: when no preview computation is in flight, the preview images shown
\* are those of the current appendix list, in list order, whatever the order
\* in which overlapping computations finished.
C30_PreviewFollowsList ==
    (gPc = "shown" /\ gTasks = <<>>) => gPreviewUrls = PreviewOf(gAppendices)

====
